---- MODULE Spec2Model ----
(***************************************************************************)
(* Model of the image-generation MCP server: the size / quality / model    *)
(* helpers, the configuration object, the provider factory, the two        *)
(* provider classes (plus the superseded copies kept in the tree) and the  *)
(* tool handlers that drive them.                                          *)
(*                                                                         *)
(* Text that the code parses (size tokens, deployment names, URLs, paths)  *)
(* is a sequence of one-character strings.  Text that the code only        *)
(* measures, echoes or concatenates (prompts, messages) is a TLA+ string.  *)
(***************************************************************************)
EXTENDS Integers, Sequences, FiniteSets, TLC

VARIABLES
    call,           \* the function or method invocation under way, with its arguments
    ret,            \* what that invocation returned or threw
    env,            \* process.env as read by config.js
    config,         \* the Config singleton exported by config.js
    imageProvider,  \* the provider object built by a constructor or the factory
    fs,             \* the file system: the directories and the files with their bytes
    inv             \* the generation requests, each with its position and locals

vars == <<call, ret, env, config, imageProvider, fs, inv>>

(***************************************************************************)
(* Bounds of the model.                                                    *)
(***************************************************************************)
\* how many deployment-name fragments are concatenated into an identifier
MaxFrags == 2

(***************************************************************************)
(* JavaScript values.                                                      *)
(***************************************************************************)
\* undefined / null for a field that holds parsed text
Absent == <<"undefined">>

\* the empty string
Empty == <<>>

\* !x for a text value: undefined, null and "" are falsy
Falsy(t) == t = Absent \/ t = Empty

\* a function call that has not returned yet
Pending == [state |-> "pending"]

\* no object has been constructed
NoObject == [class |-> "none"]

\* no file system and no request take part
NoFs == [dirs |-> {}, files |-> <<>>]

NoInv == <<>>

\* the environment plays no part
NoEnv == [IMAGE_PROVIDER |-> "<unused>"]

Returned(v) == [state |-> "returned", value |-> v]

\* a thrown Error; its message is the tuple of the pieces of the template
\* literal that built it, so that an interpolated value can be found in it
Thrown(m) == [state |-> "thrown", message |-> m]

Digits == {"0", "1", "2", "3", "4", "5", "6", "7", "8", "9"}

DigitVal == [c \in Digits |->
    CASE c = "0" -> 0 [] c = "1" -> 1 [] c = "2" -> 2 [] c = "3" -> 3
      [] c = "4" -> 4 [] c = "5" -> 5 [] c = "6" -> 6 [] c = "7" -> 7
      [] c = "8" -> 8 [] c = "9" -> 9]

DigitChar == [d \in 0..9 |->
    CASE d = 0 -> "0" [] d = 1 -> "1" [] d = 2 -> "2" [] d = 3 -> "3"
      [] d = 4 -> "4" [] d = 5 -> "5" [] d = 6 -> "6" [] d = 7 -> "7"
      [] d = 8 -> "8" [] d = 9 -> "9"]

\* String(n) for a non-negative integer
RECURSIVE ToDec(_)
ToDec(n) == IF n < 10 THEN <<DigitChar[n]>>
            ELSE ToDec(n \div 10) \o <<DigitChar[n % 10]>>

\* Number(s) for a non-empty run of decimal digits (leading zeros allowed)
RECURSIVE NumberOf(_)
NumberOf(s) == IF Len(s) = 0 THEN 0
               ELSE 10 * NumberOf(SubSeq(s, 1, Len(s) - 1)) + DigitVal[s[Len(s)]]

AllDigits(s) == \A i \in 1..Len(s) : s[i] \in Digits

\* s.indexOf(c), 0 when c does not occur
IndexOf(s, c) == IF \E i \in 1..Len(s) : s[i] = c
                 THEN CHOOSE i \in 1..Len(s) : s[i] = c /\ \A j \in 1..(i - 1) : s[j] # c
                 ELSE 0

\* s.includes(t)
Includes(s, t) == \E i \in 0..(Len(s) - Len(t)) : SubSeq(s, i + 1, i + Len(t)) = t

(***************************************************************************)
(* Size and quality helpers (AzureOpenAIProvider.js, imageGenerator.js).   *)
(***************************************************************************)
\* undefined for a field that holds an enumerated string
NoValue == "<undefined>"

\* NaN, the result of Number() on text that is not a number
NaN == 0 - 1

x == "x"

small == <<"s", "m", "a", "l", "l">>

medium == <<"m", "e", "d", "i", "u", "m">>

large == <<"l", "a", "r", "g", "e">>

square == <<"s", "q", "u", "a", "r", "e">>

portrait == <<"p", "o", "r", "t", "r", "a", "i", "t">>

landscape == <<"l", "a", "n", "d", "s", "c", "a", "p", "e">>

WxH(w, h) == w \o <<x>> \o h

ErrSizeFormat == <<"Size must be in WxH format (e.g., 1024x1024)">>

ErrFluxBounds == <<"Flux size must be between 256x256 and 1440x1440">>

ErrFluxAlign == <<"Flux size dimensions must be multiples of 32">>

ErrSizeShorthand == <<"Size must be a shorthand (small, medium, large, square, portrait, landscape) or WxH format (e.g., 1024x1024)">>

FluxMin == 256

FluxMax == 1440

FluxStep == 32

\* Number(s): "" is 0, a run of digits is its decimal value, the rest NaN
Number(s) == IF AllDigits(s) THEN NumberOf(s) ELSE NaN

\* size.split('x'): the pieces between the separators
RECURSIVE Split(_, _)
Split(s, c) == IF IndexOf(s, c) = 0 THEN <<s>>
               ELSE <<SubSeq(s, 1, IndexOf(s, c) - 1)>>
                    \o Split(SubSeq(s, IndexOf(s, c) + 1, Len(s)), c)

\* /^\d+x\d+$/.test(size)
MatchesDigitsXDigits(size) ==
    /\ Len(Split(size, x)) = 2
    /\ Len(Split(size, x)[1]) > 0 /\ AllDigits(Split(size, x)[1])
    /\ Len(Split(size, x)[2]) > 0 /\ AllDigits(Split(size, x)[2])

\* !n for a number: 0 and NaN are falsy
NotNum(n) == n = 0 \/ n = NaN

\* validateFluxSize with the upper bound tested on the width only
validateFluxSize_noHeightMax(size) ==
    LET parts  == Split(size, x)
        width  == Number(parts[1])
        height == IF Len(parts) >= 2 THEN Number(parts[2]) ELSE NaN
    IN  IF NotNum(width) \/ NotNum(height) THEN Thrown(ErrSizeFormat)
        ELSE IF width < FluxMin \/ height < FluxMin \/ width > FluxMax
             THEN Thrown(ErrFluxBounds)
        ELSE IF width % FluxStep # 0 \/ height % FluxStep # 0
             THEN Thrown(ErrFluxAlign)
        ELSE Returned(size)

validateFluxSize(size) ==
    LET parts  == Split(size, x)
        width  == Number(parts[1])
        height == IF Len(parts) >= 2 THEN Number(parts[2]) ELSE NaN
    IN  IF NotNum(width) \/ NotNum(height) THEN Thrown(ErrSizeFormat)
        ELSE IF width < FluxMin \/ height < FluxMin \/ width > FluxMax \/ height > FluxMax
             THEN Thrown(ErrFluxBounds)
        ELSE IF width % FluxStep # 0 \/ height % FluxStep # 0
             THEN Thrown(ErrFluxAlign)
        ELSE Returned(size)

\* sizeMap with the portrait and landscape entries exchanged
sizeMap_swapped == [k \in {small, medium, large, square, portrait, landscape} |->
    CASE k = small     -> WxH(ToDec(512), ToDec(512))
      [] k = medium    -> WxH(ToDec(1024), ToDec(1024))
      [] k = large     -> WxH(ToDec(1440), ToDec(1440))
      [] k = square    -> WxH(ToDec(1024), ToDec(1024))
      [] k = portrait  -> WxH(ToDec(1440), ToDec(1024))
      [] k = landscape -> WxH(ToDec(1024), ToDec(1440))]

\* the sizeMap object literal: its own keys
sizeMap == [k \in {small, medium, large, square, portrait, landscape} |->
    CASE k = small     -> WxH(ToDec(512), ToDec(512))
      [] k = medium    -> WxH(ToDec(1024), ToDec(1024))
      [] k = large     -> WxH(ToDec(1440), ToDec(1440))
      [] k = square    -> WxH(ToDec(1024), ToDec(1024))
      [] k = portrait  -> WxH(ToDec(1024), ToDec(1440))
      [] k = landscape -> WxH(ToDec(1440), ToDec(1024))]

\* toPixels applying the flux bounds to every model type
toPixels_boundsForAll(sizeArg, modelTypeArg) ==
    LET size == IF sizeArg \in DOMAIN sizeMap THEN sizeMap[sizeArg] ELSE sizeArg
    IN  IF ~MatchesDigitsXDigits(size) THEN Thrown(ErrSizeShorthand)
        ELSE validateFluxSize(size)

toPixels(sizeArg, modelTypeArg) ==
    LET modelType == IF modelTypeArg = NoValue THEN "flux" ELSE modelTypeArg
        size      == IF sizeArg \in DOMAIN sizeMap THEN sizeMap[sizeArg] ELSE sizeArg
    IN  IF ~MatchesDigitsXDigits(size) THEN Thrown(ErrSizeShorthand)
        ELSE IF modelType = "flux" THEN validateFluxSize(size)
        ELSE Returned(size)

(***************************************************************************)
(* Inputs of the size helpers.                                             *)
(***************************************************************************)
\* how many leading zeros a dimension of a WxH token may carry
MaxLeadingZeros == 1

SizeDims == {0, 1, 17, 31, 32, 255, 256, 257, 287, 288, 512, 1024, 1439, 1440, 1441, 1472, 2048, 5000}

RECURSIVE Zeros(_)
Zeros(n) == IF n = 0 THEN <<>> ELSE <<"0">> \o Zeros(n - 1)

\* the decimal spellings of a dimension
Spellings(n) == {Zeros(z) \o ToDec(n) : z \in 0..MaxLeadingZeros}

WxHTokens == UNION {{WxH(w, h) : w \in Spellings(a), h \in Spellings(b)} : a \in SizeDims, b \in SizeDims}

Shorthands == {small, medium, large, square, portrait, landscape}

OtherTokens == {Empty,
                <<"S", "m", "a", "l", "l">>,
                <<"h", "u", "g", "e">>,
                <<"5", "1", "2">>,
                <<"5", "1", "2", "x">>,
                <<"x", "5", "1", "2">>,
                <<"5", "1", "2", "X", "5", "1", "2">>,
                <<"5", "1", "2", "x", "5", "1", "2", "x", "5", "1", "2">>,
                <<" ", "5", "1", "2", "x", "5", "1", "2">>,
                <<"5", "1", "2", "x", "-", "5", "1", "2">>,
                <<"5", "1", "2", ".", "5", "x", "5", "1", "2">>}

SizeTokens == WxHTokens \cup Shorthands \cup OtherTokens

ModelTypeArgs == {"flux", "gpt-image-1", "dalle", NoValue}

InitSize ==
    /\ call \in [fn : {"toPixels"}, size : SizeTokens, modelType : ModelTypeArgs]
    /\ ret = Pending
    /\ env = NoEnv
    /\ config = NoObject
    /\ imageProvider = NoObject
    /\ fs = NoFs
    /\ inv = NoInv

CallToPixels ==
    /\ call.fn = "toPixels"
    /\ ret = Pending
    /\ ret' = toPixels(call.size, call.modelType)
    /\ UNCHANGED <<call, env, config, imageProvider, fs, inv>>

NextSize == CallToPixels

SpecSize == InitSize /\ [][NextSize]_vars

(***************************************************************************)
(* Claims about the size resolver, checked under SpecSize.                 *)
(***************************************************************************)
DimLegalForFlux(n) == 256 <= n /\ n <= 1440 /\ n % 32 = 0

\* C1: under modelType flux a WxH token whose width or height lies outside
\* [256,1440] or is not a multiple of 32 is rejected, and a token with both
\* dimensions inside the range and multiples of 32 is returned unchanged.
C1_FluxSizeRule ==
    (call.fn = "toPixels" /\ call.modelType = "flux" /\ ret # Pending) =>
        \A a \in SizeDims, b \in SizeDims :
            \A w \in Spellings(a), h \in Spellings(b) :
                call.size = WxH(w, h) =>
                    IF DimLegalForFlux(a) /\ DimLegalForFlux(b)
                    THEN ret = Returned(call.size)
                    ELSE ret.state = "thrown"

\* a custom, non-square flux size at the edges of the range was accepted
C1_Witness ==
    /\ call.fn = "toPixels" /\ call.modelType = "flux"
    /\ call.size = WxH(ToDec(288), ToDec(1440))
    /\ ret = Returned(call.size)

\* the documented pixel pair of each shorthand, written out
DocumentedPixels(k) ==
    CASE k = small     -> <<"5", "1", "2", "x", "5", "1", "2">>
      [] k = medium    -> <<"1", "0", "2", "4", "x", "1", "0", "2", "4">>
      [] k = large     -> <<"1", "4", "4", "0", "x", "1", "4", "4", "0">>
      [] k = square    -> <<"1", "0", "2", "4", "x", "1", "0", "2", "4">>
      [] k = portrait  -> <<"1", "0", "2", "4", "x", "1", "4", "4", "0">>
      [] k = landscape -> <<"1", "4", "4", "0", "x", "1", "0", "2", "4">>

\* C2: each of the six shorthand tokens resolves, for every model type, to
\* its documented pixel pair and never fails.
C2_ShorthandPixels ==
    (call.fn = "toPixels" /\ call.size \in Shorthands /\ ret # Pending) =>
        ret = Returned(DocumentedPixels(call.size))

\* portrait was resolved for a model type other than flux
C2_Witness ==
    /\ call.fn = "toPixels" /\ call.size = portrait
    /\ call.modelType = "gpt-image-1"
    /\ ret.state = "returned"

(***************************************************************************)
(* Model detection (AzureOpenAIProvider.getModelType, Config.getModelType) *)
(***************************************************************************)
UpperCase == <<"A", "B", "C", "D", "E", "F", "G", "H", "I", "J", "K", "L", "M",
               "N", "O", "P", "Q", "R", "S", "T", "U", "V", "W", "X", "Y", "Z">>

LowerCase == <<"a", "b", "c", "d", "e", "f", "g", "h", "i", "j", "k", "l", "m",
               "n", "o", "p", "q", "r", "s", "t", "u", "v", "w", "x", "y", "z">>

\* String.prototype.toLowerCase on the ASCII range
toLowerCase(s) ==
    [i \in 1..Len(s) |->
        IF \E k \in 1..26 : UpperCase[k] = s[i]
        THEN LowerCase[CHOOSE k \in 1..26 : UpperCase[k] = s[i]]
        ELSE s[i]]

flux == <<"f", "l", "u", "x">>

gptImage == <<"g", "p", "t", "-", "i", "m", "a", "g", "e">>

\* getModelType without the lower-casing
getModelType_caseSensitive(deployment) ==
    IF Includes(deployment, flux) THEN "flux"
    ELSE IF Includes(deployment, gptImage) THEN "gpt-image-1"
    ELSE "flux"

\* getModelType() of both classes, as a function of this.deployment
getModelType(deployment) ==
    LET deploymentLower == toLowerCase(deployment)
    IN  IF Includes(deploymentLower, flux) THEN "flux"
        ELSE IF Includes(deploymentLower, gptImage) THEN "gpt-image-1"
        ELSE "flux"

\* pieces from which deployment identifiers are put together
Fragments == {flux,
              <<"F", "L", "U", "X">>,
              <<"f", "l">>,
              <<"U", "x">>,
              gptImage,
              <<"G", "P", "T", "-", "I", "m", "a", "g", "e">>,
              <<"g", "p", "t">>,
              <<"-", "i", "m", "a", "g", "e">>,
              <<"-", "1">>,
              <<"d", "a", "l", "l", "e">>}

RECURSIVE Identifiers(_)
Identifiers(n) == IF n = 0 THEN {Empty}
                  ELSE Identifiers(n - 1)
                       \cup {i \o f : i \in Identifiers(n - 1), f \in Fragments}

DeploymentIds == Identifiers(MaxFrags)

InitDetect ==
    /\ call \in [fn : {"getModelType"}, class : {"AzureOpenAIProvider", "Config"},
                 deployment : DeploymentIds]
    /\ ret = Pending
    /\ env = NoEnv
    /\ config = NoObject
    /\ imageProvider = NoObject
    /\ fs = NoFs
    /\ inv = NoInv

ProviderGetModelType ==
    /\ call.fn = "getModelType" /\ call.class = "AzureOpenAIProvider"
    /\ ret = Pending
    /\ ret' = Returned(getModelType(call.deployment))
    /\ UNCHANGED <<call, env, config, imageProvider, fs, inv>>

ConfigGetModelType ==
    /\ call.fn = "getModelType" /\ call.class = "Config"
    /\ ret = Pending
    /\ ret' = Returned(getModelType(call.deployment))
    /\ UNCHANGED <<call, env, config, imageProvider, fs, inv>>

NextDetect == ProviderGetModelType \/ ConfigGetModelType

SpecDetect == InitDetect /\ [][NextDetect]_vars

(***************************************************************************)
(* Claim about model detection, checked under SpecDetect.                  *)
(***************************************************************************)
\* s holds the letters of word at some position, in either case
ContainsAnyCase(s, word) ==
    \E i \in 0..(Len(s) - Len(word)) :
        \A k \in 1..Len(word) :
            \/ s[i + k] = word[k]
            \/ \E n \in 1..26 : LowerCase[n] = word[k] /\ UpperCase[n] = s[i + k]

\* C5: detection returns flux or gpt-image-1 for every identifier and never
\* fails: flux when the identifier contains "flux" in any letter case (also
\* next to "gpt-image"), gpt-image-1 when it contains "gpt-image" but not
\* "flux", and flux when it contains neither.
C5_DetectionTotal ==
    (call.fn = "getModelType" /\ ret # Pending) =>
        /\ ret.state = "returned"
        /\ ret.value \in {"flux", "gpt-image-1"}
        /\ ContainsAnyCase(call.deployment, flux) => ret.value = "flux"
        /\ (ContainsAnyCase(call.deployment, gptImage)
              /\ ~ContainsAnyCase(call.deployment, flux)) => ret.value = "gpt-image-1"
        /\ (~ContainsAnyCase(call.deployment, gptImage)
              /\ ~ContainsAnyCase(call.deployment, flux)) => ret.value = "flux"

\* an identifier holding both names, in upper case, was classified
C5_Witness ==
    /\ call.fn = "getModelType"
    /\ call.deployment = gptImage \o <<"F", "L", "U", "X">>
    /\ ret = Returned("flux")

(***************************************************************************)
(* Paths: the POSIX flavour of node's path module, as used by the code.    *)
(***************************************************************************)
slash == "/"

dotdot == <<".", ".">>

RECURSIVE JoinSegs(_)
JoinSegs(segs) == IF Len(segs) = 0 THEN <<>>
                  ELSE IF Len(segs) = 1 THEN segs[1]
                  ELSE segs[1] \o <<slash>> \o JoinSegs(Tail(segs))

\* normalizeString: drops "" and ".", lets ".." remove the segment before it
RECURSIVE NormalizeSegs(_, _, _)
NormalizeSegs(segs, acc, allowAboveRoot) ==
    IF Len(segs) = 0 THEN acc
    ELSE IF Head(segs) = <<>> \/ Head(segs) = <<".">>
         THEN NormalizeSegs(Tail(segs), acc, allowAboveRoot)
    ELSE IF Head(segs) = dotdot
         THEN IF Len(acc) > 0 /\ acc[Len(acc)] # dotdot
              THEN NormalizeSegs(Tail(segs), SubSeq(acc, 1, Len(acc) - 1), allowAboveRoot)
              ELSE IF allowAboveRoot
                   THEN NormalizeSegs(Tail(segs), Append(acc, dotdot), allowAboveRoot)
                   ELSE NormalizeSegs(Tail(segs), acc, allowAboveRoot)
    ELSE NormalizeSegs(Tail(segs), Append(acc, Head(segs)), allowAboveRoot)

\* path.normalize
PathNormalize(p) ==
    IF Len(p) = 0 THEN <<".">>
    ELSE LET isAbsolute == p[1] = slash
             trailing   == p[Len(p)] = slash
             body       == JoinSegs(NormalizeSegs(Split(p, slash), <<>>, ~isAbsolute))
         IN  IF Len(body) = 0
             THEN IF isAbsolute THEN <<slash>>
                  ELSE IF trailing THEN <<".", slash>> ELSE <<".">>
             ELSE (IF isAbsolute THEN <<slash>> ELSE <<>>)
                  \o body \o (IF trailing THEN <<slash>> ELSE <<>>)

\* path.join(a, b)
PathJoin(a, b) ==
    IF Len(a) = 0 /\ Len(b) = 0 THEN <<".">>
    ELSE IF Len(a) = 0 THEN PathNormalize(b)
    ELSE IF Len(b) = 0 THEN PathNormalize(a)
    ELSE PathNormalize(a \o <<slash>> \o b)

\* the segments of a path that carry a name
NamedSegs(p) == SelectSeq(Split(p, slash), LAMBDA g : Len(g) > 0)

\* path.basename
PathBasename(p) == IF Len(NamedSegs(p)) = 0 THEN <<>>
                   ELSE NamedSegs(p)[Len(NamedSegs(p))]

\* path.dirname
PathDirname(p) ==
    LET segs == NamedSegs(p)
        isAbsolute == Len(p) > 0 /\ p[1] = slash
    IN  IF Len(segs) <= 1
        THEN IF isAbsolute THEN <<slash>> ELSE <<".">>
        ELSE (IF isAbsolute THEN <<slash>> ELSE <<>>)
             \o JoinSegs(SubSeq(segs, 1, Len(segs) - 1))

\* process.cwd()
Cwd == <<"/", "w", "o", "r", "k">>

generatedImages == <<"g", "e", "n", "e", "r", "a", "t", "e", "d", "-", "i", "m", "a", "g", "e", "s">>

(***************************************************************************)
(* config.js: the Config class.                                            *)
(***************************************************************************)
\* !s for an enumerated string
FalsyStr(s) == s = NoValue \/ s = ""

DefaultDeployment == <<"f", "l", "u", "x", "-", "1", "-", "1", "-", "p", "r", "o">>

DefaultApiVersion == <<"2", "0", "2", "5", "-", "0", "4", "-", "0", "1", "-", "p", "r", "e", "v", "i", "e", "w">>

\* a Config whose deployment and API version have no defaults
Config_noDefaults(penv) ==
    [class        |-> "Config",
     provider     |-> IF FalsyStr(penv.IMAGE_PROVIDER) THEN "google" ELSE penv.IMAGE_PROVIDER,
     geminiApiKey |-> penv.GEMINI_API_KEY,
     endpoint     |-> penv.AZURE_OPENAI_ENDPOINT,
     deployment   |-> penv.AZURE_OPENAI_DEPLOYMENT,
     apiVersion   |-> penv.AZURE_OPENAI_API_VERSION,
     apiKey       |-> penv.AZURE_OPENAI_API_KEY,
     outputDir    |-> IF Falsy(penv.OUTPUT_DIR) THEN PathJoin(Cwd, generatedImages)
                      ELSE penv.OUTPUT_DIR]

\* new Config(), reading process.env
Config(penv) ==
    [class        |-> "Config",
     provider     |-> IF FalsyStr(penv.IMAGE_PROVIDER) THEN "google" ELSE penv.IMAGE_PROVIDER,
     geminiApiKey |-> penv.GEMINI_API_KEY,
     endpoint     |-> penv.AZURE_OPENAI_ENDPOINT,
     deployment   |-> IF Falsy(penv.AZURE_OPENAI_DEPLOYMENT) THEN DefaultDeployment
                      ELSE penv.AZURE_OPENAI_DEPLOYMENT,
     apiVersion   |-> IF Falsy(penv.AZURE_OPENAI_API_VERSION) THEN DefaultApiVersion
                      ELSE penv.AZURE_OPENAI_API_VERSION,
     apiKey       |-> penv.AZURE_OPENAI_API_KEY,
     outputDir    |-> IF Falsy(penv.OUTPUT_DIR) THEN PathJoin(Cwd, generatedImages)
                      ELSE penv.OUTPUT_DIR]

\* `${x}` for a text value: undefined is spelled out
Interpolate(t) == IF t = Absent THEN <<"u", "n", "d", "e", "f", "i", "n", "e", "d">> ELSE t

\* Config.getApiUrl()
Config_getApiUrl(self) ==
    LET generationsPath == <<"o", "p", "e", "n", "a", "i", "/", "d", "e", "p", "l", "o", "y", "m", "e", "n", "t", "s", "/">> \o Interpolate(self.deployment) \o <<"/", "i", "m", "a", "g", "e", "s", "/", "g", "e", "n", "e", "r", "a", "t", "i", "o", "n", "s">>
        params          == <<"?", "a", "p", "i", "-", "v", "e", "r", "s", "i", "o", "n", "=">> \o Interpolate(self.apiVersion)
    IN  Interpolate(self.endpoint) \o <<slash>> \o generationsPath \o params

(***************************************************************************)
(* The provider classes: construction, getName, getApiUrl.                 *)
(***************************************************************************)
ErrAzureIncomplete == <<"Azure", "OpenAI", "configuration", "is", "incomplete">>

ErrMissingGeminiKey == <<"Missing", "GEMINI_API_KEY", ".", "Please set it in your environment or config.">>

\* the two copies of GoogleNanaBananaProvider.js kept in the tree: the one
\* that calls models.generateImages and the one that calls generateContent
GoogleCopies == {"generateImages", "generateContent"}

\* the constructor with the apiVersion test left out
AzureOpenAIProvider_noVersionTest(cfg) ==
    IF Falsy(cfg.endpoint) \/ FalsyStr(cfg.apiKey) \/ Falsy(cfg.deployment)
    THEN Thrown(ErrAzureIncomplete)
    ELSE Returned([class      |-> "AzureOpenAIProvider",
                   config     |-> cfg,
                   endpoint   |-> cfg.endpoint,
                   apiKey     |-> cfg.apiKey,
                   deployment |-> cfg.deployment,
                   apiVersion |-> cfg.apiVersion,
                   outputDir  |-> IF Falsy(cfg.outputDir) THEN PathJoin(Cwd, generatedImages)
                                  ELSE cfg.outputDir,
                   modelType  |-> getModelType(cfg.deployment)])

\* new AzureOpenAIProvider(cfg)
AzureOpenAIProvider(cfg) ==
    IF Falsy(cfg.endpoint) \/ FalsyStr(cfg.apiKey) \/ Falsy(cfg.deployment) \/ Falsy(cfg.apiVersion)
    THEN Thrown(ErrAzureIncomplete)
    ELSE Returned([class      |-> "AzureOpenAIProvider",
                   config     |-> cfg,
                   endpoint   |-> cfg.endpoint,
                   apiKey     |-> cfg.apiKey,
                   deployment |-> cfg.deployment,
                   apiVersion |-> cfg.apiVersion,
                   outputDir  |-> IF Falsy(cfg.outputDir) THEN PathJoin(Cwd, generatedImages)
                                  ELSE cfg.outputDir,
                   modelType  |-> getModelType(cfg.deployment)])

\* new GoogleNanaBananaProvider(cfg), of either copy
GoogleNanaBananaProvider(copy, cfg) ==
    IF FalsyStr(cfg.apiKey)
    THEN Thrown(ErrMissingGeminiKey)
    ELSE Returned([class     |-> "GoogleNanaBananaProvider",
                   copy      |-> copy,
                   config    |-> cfg,
                   outputDir |-> IF Falsy(cfg.outputDir) THEN PathJoin(Cwd, generatedImages)
                                 ELSE cfg.outputDir])

\* getName() of the two classes
getName(self) ==
    IF self.class = "AzureOpenAIProvider" THEN "azure-openai" ELSE "google-nano-banana"

\* getApiUrl that drops a separator the endpoint already ends with
getApiUrl_trimmed(self) ==
    (IF self.endpoint[Len(self.endpoint)] = slash
     THEN SubSeq(self.endpoint, 1, Len(self.endpoint) - 1) ELSE self.endpoint)
        \o <<"/", "o", "p", "e", "n", "a", "i", "/", "d", "e", "p", "l", "o", "y", "m", "e", "n", "t", "s", "/">> \o Interpolate(self.deployment)
        \o <<"/", "i", "m", "a", "g", "e", "s", "/", "g", "e", "n", "e", "r", "a", "t", "i", "o", "n", "s", "?", "a", "p", "i", "-", "v", "e", "r", "s", "i", "o", "n", "=">> \o Interpolate(self.apiVersion)

\* AzureOpenAIProvider.getApiUrl()
getApiUrl(self) ==
    Interpolate(self.endpoint) \o <<"/", "o", "p", "e", "n", "a", "i", "/", "d", "e", "p", "l", "o", "y", "m", "e", "n", "t", "s", "/">> \o Interpolate(self.deployment)
        \o <<"/", "i", "m", "a", "g", "e", "s", "/", "g", "e", "n", "e", "r", "a", "t", "i", "o", "n", "s", "?", "a", "p", "i", "-", "v", "e", "r", "s", "i", "o", "n", "=">> \o Interpolate(self.apiVersion)

(***************************************************************************)
(* providerFactory.js                                                      *)
(***************************************************************************)
ErrUnknownProvider(providerType) ==
    <<"Unknown provider", ":", providerType, ".", "Supported", ":", "google", ",", "azure">>

\* createImageProvider that builds the Google provider for unknown values too
createImageProvider_fallback(cfg, googleCopy) ==
    LET providerType == IF FalsyStr(cfg.provider) THEN "google" ELSE cfg.provider
    IN  IF providerType = "azure"
        THEN AzureOpenAIProvider(
                 [endpoint |-> cfg.endpoint, apiKey |-> cfg.apiKey,
                  deployment |-> cfg.deployment, apiVersion |-> cfg.apiVersion,
                  outputDir |-> cfg.outputDir])
        ELSE GoogleNanaBananaProvider(googleCopy,
                 [apiKey |-> cfg.geminiApiKey, outputDir |-> cfg.outputDir])

\* createImageProvider(), reading the Config singleton; googleCopy is the
\* copy of the Google class that the import resolves to
createImageProvider(cfg, googleCopy) ==
    LET providerType == IF FalsyStr(cfg.provider) THEN "google" ELSE cfg.provider
    IN  IF providerType = "google"
        THEN GoogleNanaBananaProvider(googleCopy,
                 [apiKey |-> cfg.geminiApiKey, outputDir |-> cfg.outputDir])
        ELSE IF providerType = "azure"
        THEN AzureOpenAIProvider(
                 [endpoint |-> cfg.endpoint, apiKey |-> cfg.apiKey,
                  deployment |-> cfg.deployment, apiVersion |-> cfg.apiVersion,
                  outputDir |-> cfg.outputDir])
        ELSE Thrown(ErrUnknownProvider(providerType))

(***************************************************************************)
(* Construction of the objects and their configuration methods.            *)
(***************************************************************************)
EndpointPlain == <<"h", "t", "t", "p", "s", ":", "/", "/", "h">>

EndpointSlash == <<"h", "t", "t", "p", "s", ":", "/", "/", "h">> \o <<slash>>

gptImage1 == gptImage \o <<"-", "1">>

OutDir == <<"/", "o", "u", "t">>

AzureConfigs ==
    [endpoint   : {Absent, Empty, EndpointPlain, EndpointSlash},
     apiKey     : {NoValue, "", "azure-key"},
     deployment : {Absent, Empty, DefaultDeployment, gptImage1, <<"d">>},
     apiVersion : {Absent, <<"v">>},
     outputDir  : {Absent, OutDir}]

GoogleConfigs ==
    [apiKey : {NoValue, "", "gemini-key"}, outputDir : {Absent, OutDir}]

Envs ==
    [IMAGE_PROVIDER           : {NoValue, "", "google", "azure", "Google", "openai"},
     GEMINI_API_KEY           : {NoValue, "gemini-key"},
     AZURE_OPENAI_ENDPOINT    : {Absent, EndpointPlain, EndpointSlash},
     AZURE_OPENAI_DEPLOYMENT  : {Absent, gptImage1, <<"d">>},
     AZURE_OPENAI_API_VERSION : {Absent, <<"v">>},
     AZURE_OPENAI_API_KEY     : {NoValue, "azure-key"},
     OUTPUT_DIR               : {Absent, OutDir}]

InitConfig ==
    /\ \/ /\ call \in [fn : {"new AzureOpenAIProvider"}, config : AzureConfigs]
                       \cup [fn : {"new GoogleNanaBananaProvider"}, copy : GoogleCopies,
                             config : GoogleConfigs]
          /\ env = NoEnv
       \/ /\ call = [fn |-> "new Config"]
          /\ env \in Envs
    /\ ret = Pending
    /\ config = NoObject
    /\ imageProvider = NoObject
    /\ fs = NoFs
    /\ inv = NoInv

\* the value with which a constructor call completes, and the object it left
Completes(result, isProvider) ==
    /\ ret' = IF result.state = "thrown" THEN result ELSE Returned(result.value.class)
    /\ imageProvider' = IF isProvider /\ result.state = "returned" THEN result.value
                        ELSE imageProvider

NewAzureOpenAIProvider ==
    /\ call.fn = "new AzureOpenAIProvider" /\ ret = Pending
    /\ Completes(AzureOpenAIProvider(call.config), TRUE)
    /\ UNCHANGED <<call, env, config, fs, inv>>

NewGoogleNanaBananaProvider ==
    /\ call.fn = "new GoogleNanaBananaProvider" /\ ret = Pending
    /\ Completes(GoogleNanaBananaProvider(call.copy, call.config), TRUE)
    /\ UNCHANGED <<call, env, config, fs, inv>>

NewConfig ==
    /\ call.fn = "new Config" /\ ret = Pending
    /\ config' = Config(env)
    /\ ret' = Returned("Config")
    /\ UNCHANGED <<call, env, imageProvider, fs, inv>>

CreateImageProvider ==
    /\ config # NoObject /\ imageProvider = NoObject
    /\ call.fn = "new Config" /\ ret # Pending
    /\ \E googleCopy \in GoogleCopies :
           /\ call' = [fn |-> "createImageProvider", googleCopy |-> googleCopy]
           /\ Completes(createImageProvider(config, googleCopy), TRUE)
    /\ UNCHANGED <<env, config, fs, inv>>

CallGetName ==
    /\ imageProvider # NoObject
    /\ call' = [fn |-> "getName"]
    /\ ret' = Returned(getName(imageProvider))
    /\ UNCHANGED <<env, config, imageProvider, fs, inv>>

CallGetApiUrl ==
    /\ imageProvider # NoObject /\ imageProvider.class = "AzureOpenAIProvider"
    /\ call' = [fn |-> "getApiUrl", class |-> "AzureOpenAIProvider"]
    /\ ret' = Returned(getApiUrl(imageProvider))
    /\ UNCHANGED <<env, config, imageProvider, fs, inv>>

CallConfigGetApiUrl ==
    /\ config # NoObject
    /\ call' = [fn |-> "getApiUrl", class |-> "Config"]
    /\ ret' = Returned(Config_getApiUrl(config))
    /\ UNCHANGED <<env, config, imageProvider, fs, inv>>

NextConfig ==
    \/ NewAzureOpenAIProvider
    \/ NewGoogleNanaBananaProvider
    \/ NewConfig
    \/ CreateImageProvider
    \/ CallGetName
    \/ CallGetApiUrl
    \/ CallConfigGetApiUrl

SpecConfig == InitConfig /\ [][NextConfig]_vars

(***************************************************************************)
(* Claims about the URL, the factory and the Azure constructor, checked    *)
(* under SpecConfig.                                                       *)
(***************************************************************************)
\* how often t occurs in s
Occurrences(s, t) ==
    Cardinality({i \in 0..(Len(s) - Len(t)) : SubSeq(s, i + 1, i + Len(t)) = t})

EndsWithSlash(t) == Len(t) > 0 /\ t[Len(t)] = "/"

\* the object whose getApiUrl() was called
UrlSubject == IF call.class = "Config" THEN config ELSE imageProvider

UrlCallDone ==
    /\ call.fn = "getApiUrl" /\ ret.state = "returned"
    /\ ~Falsy(UrlSubject.endpoint)

\* the documented path and query for deployment d and API version v
DocumentedSegment(d, v) == <<"/", "o", "p", "e", "n", "a", "i", "/", "d", "e", "p", "l", "o", "y", "m", "e", "n", "t", "s", "/">> \o d \o <<"/", "i", "m", "a", "g", "e", "s", "/", "g", "e", "n", "e", "r", "a", "t", "i", "o", "n", "s", "?", "a", "p", "i", "-", "v", "e", "r", "s", "i", "o", "n", "=">> \o v

FactoryCallDone == call.fn = "createImageProvider" /\ ret # Pending

\* the message holds the piece w
Mentions(message, w) == \E i \in 1..Len(message) : message[i] = w

IsUnknownProviderError(r, value) ==
    /\ r.state = "thrown"
    /\ r.message[1] = "Unknown provider"
    /\ Mentions(r.message, value)
    /\ Mentions(r.message, "google") /\ Mentions(r.message, "azure")

Present(t) == t # Absent /\ t # Empty

PresentStr(t) == t # NoValue /\ t # ""

\* the variant named by the IMAGE_PROVIDER setting
SelectedVariant ==
    IF env.IMAGE_PROVIDER \in {NoValue, "", "google"} THEN "google"
    ELSE IF env.IMAGE_PROVIDER = "azure" THEN "azure"
    ELSE "unknown"

\* C7 as stated: google (also when the discriminator is absent or empty)
\* yields the provider named google-nano-banana, azure the one named
\* azure-openai, every other value an UnknownProvider error naming the value
\* and the supported set.
C7_Original ==
    FactoryCallDone =>
        /\ SelectedVariant = "google" =>
               ret.state = "returned" /\ getName(imageProvider) = "google-nano-banana"
        /\ SelectedVariant = "azure" =>
               ret.state = "returned" /\ getName(imageProvider) = "azure-openai"
        /\ SelectedVariant = "unknown" =>
               IsUnknownProviderError(ret, env.IMAGE_PROVIDER) /\ imageProvider = NoObject

\* C7 as amended: the discriminator selects the variant that is constructed;
\* with that variant's required settings present the provider is returned
\* under its name, without them the variant's own constructor error is
\* raised, and every other value fails with the UnknownProvider error.
C7_FactorySelects ==
    FactoryCallDone =>
        /\ SelectedVariant = "google" =>
               IF PresentStr(env.GEMINI_API_KEY)
               THEN /\ ret = Returned("GoogleNanaBananaProvider")
                    /\ imageProvider.class = "GoogleNanaBananaProvider"
                    /\ getName(imageProvider) = "google-nano-banana"
               ELSE /\ ret.state = "thrown" /\ Mentions(ret.message, "GEMINI_API_KEY")
                    /\ imageProvider = NoObject
        /\ SelectedVariant = "azure" =>
               IF Present(env.AZURE_OPENAI_ENDPOINT) /\ PresentStr(env.AZURE_OPENAI_API_KEY)
               THEN /\ ret = Returned("AzureOpenAIProvider")
                    /\ imageProvider.class = "AzureOpenAIProvider"
                    /\ getName(imageProvider) = "azure-openai"
               ELSE /\ ret.state = "thrown" /\ Mentions(ret.message, "incomplete")
                    /\ imageProvider = NoObject
        /\ SelectedVariant = "unknown" =>
               IsUnknownProviderError(ret, env.IMAGE_PROVIDER) /\ imageProvider = NoObject

\* the factory built the Azure provider from a configuration that relies on
\* the default deployment
C7_Witness ==
    /\ FactoryCallDone
    /\ env.IMAGE_PROVIDER = "azure" /\ env.AZURE_OPENAI_DEPLOYMENT = Absent
    /\ ret.state = "returned"
    /\ getName(imageProvider) = "azure-openai"

AzureFields == {"endpoint", "apiKey", "deployment", "apiVersion"}

\* the spellings under which a message can name a field
FieldNames(f) ==
    CASE f = "endpoint"   -> {"endpoint", "Endpoint", "AZURE_OPENAI_ENDPOINT"}
      [] f = "apiKey"     -> {"apiKey", "API key", "key", "AZURE_OPENAI_API_KEY"}
      [] f = "deployment" -> {"deployment", "Deployment", "AZURE_OPENAI_DEPLOYMENT"}
      [] f = "apiVersion" -> {"apiVersion", "API version", "version", "AZURE_OPENAI_API_VERSION"}

Names(message, f) == \E w \in FieldNames(f) : Mentions(message, w)

\* the fields missing from the argument of the Azure constructor
MissingAzureFields ==
    {f \in AzureFields :
        IF f = "apiKey" THEN ~PresentStr(call.config[f]) ELSE ~Present(call.config[f])}

AzureConstructionDone == call.fn = "new AzureOpenAIProvider" /\ ret # Pending

ErrFluxQuality == <<"Flux quality must be \"standard\" or \"hd\"">>

ErrGptQuality == <<"gpt-image-1 quality must be \"low\", \"medium\", or \"high\"">>

\* validateQuality that treats every model type as flux
validateQuality_fluxForAll(quality, modelType) ==
    IF quality \notin {"standard", "hd"} THEN Thrown(ErrFluxQuality)
    ELSE Returned(quality)

validateQuality(quality, modelType) ==
    IF modelType = "flux"
    THEN IF quality \notin {"standard", "hd"} THEN Thrown(ErrFluxQuality)
         ELSE Returned(quality)
    ELSE IF modelType = "gpt-image-1"
    THEN IF quality \notin {"low", "medium", "high"} THEN Thrown(ErrGptQuality)
         ELSE Returned(quality)
    ELSE Returned(quality)

\* an errors array that stops at the missing endpoint
ConfigErrors_firstOnly(self) ==
    IF self.provider = "google"
    THEN IF FalsyStr(self.geminiApiKey)
         THEN <<<<"GEMINI_API_KEY", "is required when using Google provider">>>>
         ELSE <<>>
    ELSE IF self.provider = "azure"
    THEN IF Falsy(self.endpoint)
         THEN <<<<"AZURE_OPENAI_ENDPOINT", "is required when using Azure provider">>>>
         ELSE IF FalsyStr(self.apiKey)
         THEN <<<<"AZURE_OPENAI_API_KEY", "is required when using Azure provider">>>>
         ELSE <<>>
    ELSE <<<<"Unknown IMAGE_PROVIDER", ":", self.provider, ".",
             "Supported values", ":", "google", ",", "azure">>>>

\* the errors array built by Config.validate()
ConfigErrors(self) ==
    IF self.provider = "google"
    THEN IF FalsyStr(self.geminiApiKey)
         THEN <<<<"GEMINI_API_KEY", "is required when using Google provider">>>>
         ELSE <<>>
    ELSE IF self.provider = "azure"
    THEN (IF Falsy(self.endpoint)
          THEN <<<<"AZURE_OPENAI_ENDPOINT", "is required when using Azure provider">>>>
          ELSE <<>>)
         \o (IF FalsyStr(self.apiKey)
             THEN <<<<"AZURE_OPENAI_API_KEY", "is required when using Azure provider">>>>
             ELSE <<>>)
    ELSE <<<<"Unknown IMAGE_PROVIDER", ":", self.provider, ".",
             "Supported values", ":", "google", ",", "azure">>>>

\* errors.map(e => `  - ${e}`).join('\n')
RECURSIVE BulletLines(_)
BulletLines(errors) ==
    IF Len(errors) = 0 THEN <<>>
    ELSE <<"  - ">> \o Head(errors)
         \o (IF Len(errors) > 1 THEN <<"\n">> ELSE <<>>) \o BulletLines(Tail(errors))

\* Config.validate()
Config_validate(self) ==
    IF Len(ConfigErrors(self)) > 0
    THEN Thrown(<<"Configuration validation failed:", "\n">> \o BulletLines(ConfigErrors(self)))
    ELSE Returned(NoValue)

(***************************************************************************)
(* The UI prompt (index.js buildUIPrompt, ImageGenerator.buildUIPrompt).   *)
(***************************************************************************)
\* styleDescriptions[style], NoValue for a style that is not a key
styleDescriptions(style) ==
    CASE style = "modern" -> "sleek, contemporary design with clean lines and vibrant colors"
      [] style = "minimal" -> "minimalist design with lots of white space and subtle colors"
      [] style = "professional" -> "professional corporate design with business-appropriate colors"
      [] style = "playful" -> "playful and colorful design with fun elements and bright colors"
      [] style = "dark" -> "dark mode interface with dark background and accent colors"
      [] style = "glassmorphism" -> "glassmorphism design with frosted glass effects and transparency"
      [] OTHER -> NoValue

\* typeDescriptions[type], NoValue for a type that is not a key
typeDescriptions(type) ==
    CASE type = "mobile app" -> "mobile application interface with typical mobile UI patterns"
      [] type = "web app" -> "web application interface with desktop layout"
      [] type = "dashboard" -> "analytics dashboard with charts, graphs, and data visualizations"
      [] type = "landing page" -> "marketing landing page with hero section and call-to-action"
      [] type = "e-commerce" -> "e-commerce product page or shopping interface"
      [] type = "social media" -> "social media feed or profile interface"
      [] OTHER -> NoValue

\* `${v}` for an enumerated string or a prompt
Show(v) == IF v = NoValue THEN "undefined" ELSE v

\* the part of the UI prompt that both versions share
UIPromptHead(description, style, type) ==
    "A high-quality UI design screenshot of a " \o Show(type) \o ". "
    \o Show(description) \o ". "
    \o (IF styleDescriptions(style) # NoValue
        THEN "The design features a " \o styleDescriptions(style) \o ". " ELSE "")
    \o (IF typeDescriptions(type) # NoValue
        THEN "This is a " \o typeDescriptions(type) \o ". " ELSE "")

\* buildUIPrompt of index.js
buildUIPrompt(description, style, type) ==
    UIPromptHead(description, style, type)
    \o "The design should look professional and realistic, like a real application screenshot."

\* ImageGenerator.buildUIPrompt
ImageGenerator_buildUIPrompt(description, style, type) ==
    UIPromptHead(description, style, type)
    \o "The interface should be pixel-perfect with proper spacing, typography, and visual hierarchy. "
    \o "Include realistic UI elements like buttons, input fields, navigation, icons, and content. "
    \o "Professional UI/UX design quality with attention to detail. "
    \o "Sharp, crisp rendering suitable for presentation or mockup. "
    \o "NO code, NO Lorem Ipsum placeholder text, use realistic content. "
    \o "NO watermarks or labels."

(***************************************************************************)
(* generateImage up to its first await: the argument defaults, the checks  *)
(* and the request that is sent.                                           *)
(***************************************************************************)
ErrPromptRequired == <<"prompt is required">>

ErrPromptTooShort == <<"prompt should be detailed and descriptive (at least 10 characters)">>

ErrDescriptionRequired == <<"description is required for UI generation">>

ErrDescriptionTooShort == <<"description should be detailed (at least 20 characters) to generate a quality UI mockup">>

MinPromptLength == 10

MinDescriptionLength == 20

png == <<"p", "n", "g">>

\* a destructuring default: it replaces undefined only
OrStr(v, d) == IF v = NoValue THEN d ELSE v

OrText(v, d) == IF v = Absent THEN d ELSE v

\* v || d
ElseStr(v, d) == IF FalsyStr(v) THEN d ELSE v

ElseText(v, d) == IF Falsy(v) THEN d ELSE v

\* the call is suspended on the remote request
Awaiting(locals, request) == [state |-> "awaiting", locals |-> locals, request |-> request]

\* AzureOpenAIProvider.generateImage, lines 377-425
AzureOpenAIProvider_generateImage(self, prompt, options) ==
    LET quality      == OrStr(options.quality, "standard")
        size         == OrText(options.size, medium)
        outputFormat == OrText(options.outputFormat, png)
        checked      == validateQuality(quality, self.modelType)
        pixelSize    == toPixels(size, self.modelType)
    IN  IF FalsyStr(prompt) THEN Thrown(ErrPromptRequired)
        ELSE IF Len(prompt) < MinPromptLength THEN Thrown(ErrPromptTooShort)
        ELSE IF checked.state = "thrown" THEN checked
        ELSE IF pixelSize.state = "thrown" THEN pixelSize
        ELSE Awaiting([prompt |-> prompt, quality |-> quality, pixelSize |-> pixelSize.value,
                       outputFormat |-> outputFormat,
                       filename |-> options.filename,
                       workingDirectory |-> options.workingDirectory,
                       modelType |-> self.modelType],
                      [url |-> getApiUrl(self), apiKey |-> self.apiKey,
                       prompt |-> prompt, n |-> 1, size |-> pixelSize.value,
                       output_format |-> outputFormat, quality |-> quality,
                       output_compression |-> options.outputCompression])

\* a Google request that forwards the size and quality options
GoogleNanaBananaProvider_generateImage_sized(self, prompt, options) ==
    IF self.copy = "generateImages" /\ FalsyStr(prompt) THEN Thrown(ErrPromptRequired)
    ELSE IF self.copy = "generateImages" /\ Len(prompt) < MinPromptLength
         THEN Thrown(ErrPromptTooShort)
    ELSE Awaiting([prompt |-> prompt,
                   filename |-> options.filename,
                   workingDirectory |-> options.workingDirectory],
                  [model |-> "gemini-2.0-flash-exp", prompt |-> prompt,
                   api |-> self.copy, size |-> options.size,
                   quality |-> options.quality])

\* GoogleNanaBananaProvider.generateImage, lines 40-59 (generateImages copy)
\* and lines 179-194 (generateContent copy, which has no prompt checks)
GoogleNanaBananaProvider_generateImage(self, prompt, options) ==
    IF self.copy = "generateImages" /\ FalsyStr(prompt) THEN Thrown(ErrPromptRequired)
    ELSE IF self.copy = "generateImages" /\ Len(prompt) < MinPromptLength
         THEN Thrown(ErrPromptTooShort)
    ELSE Awaiting([prompt |-> prompt,
                   filename |-> options.filename,
                   workingDirectory |-> options.workingDirectory],
                  [model |-> "gemini-2.0-flash-exp", prompt |-> prompt,
                   api |-> self.copy])

\* ImageGenerator.generateImage, lines 100-151; it reads the Config singleton
\* and has no workingDirectory parameter
ImageGenerator_generateImage(cfg, prompt, options) ==
    LET quality      == OrStr(options.quality, "standard")
        size         == OrText(options.size, medium)
        outputFormat == OrText(options.outputFormat, png)
        modelType    == getModelType(cfg.deployment)
        checked      == validateQuality(quality, modelType)
        pixelSize    == toPixels(size, modelType)
    IN  IF FalsyStr(prompt) THEN Thrown(ErrPromptRequired)
        ELSE IF Len(prompt) < MinPromptLength THEN Thrown(ErrPromptTooShort)
        ELSE IF Config_validate(cfg).state = "thrown" THEN Config_validate(cfg)
        ELSE IF checked.state = "thrown" THEN checked
        ELSE IF pixelSize.state = "thrown" THEN pixelSize
        ELSE Awaiting([prompt |-> prompt, quality |-> quality, pixelSize |-> pixelSize.value,
                       outputFormat |-> outputFormat,
                       filename |-> options.filename,
                       workingDirectory |-> Absent,
                       modelType |-> modelType],
                      [url |-> Config_getApiUrl(cfg), apiKey |-> cfg.apiKey,
                       prompt |-> prompt, n |-> 1, size |-> pixelSize.value,
                       output_format |-> outputFormat, quality |-> quality,
                       output_compression |-> options.outputCompression])

\* imageProvider.generateImage(prompt, options): dispatch on the class
Provider_generateImage(self, prompt, options) ==
    IF self.class = "AzureOpenAIProvider"
    THEN AzureOpenAIProvider_generateImage(self, prompt, options)
    ELSE GoogleNanaBananaProvider_generateImage(self, prompt, options)

(***************************************************************************)
(* saveBase64Image: the bytes, the clock, the random suffix, the file      *)
(* system.                                                                 *)
(***************************************************************************)
Base64Alphabet == <<"A", "B", "C", "D", "E", "F", "G", "H", "I", "J", "K", "L", "M", "N", "O", "P", "Q", "R", "S", "T", "U", "V", "W", "X", "Y", "Z", "a", "b", "c", "d", "e", "f", "g", "h", "i", "j", "k", "l", "m", "n", "o", "p", "q", "r", "s", "t", "u", "v", "w", "x", "y", "z", "0", "1", "2", "3", "4", "5", "6", "7", "8", "9", "+", "/">>

Base64Value(c) == (CHOOSE k \in 1..64 : Base64Alphabet[k] = c) - 1

\* Buffer.from(base64Data, 'base64') for well-formed, padded input
RECURSIVE BufferFromBase64(_)
BufferFromBase64(d) ==
    IF Len(d) < 4 THEN <<>>
    ELSE LET v1 == Base64Value(d[1])
             v2 == Base64Value(d[2])
             v3 == IF d[3] = "=" THEN 0 ELSE Base64Value(d[3])
             v4 == IF d[4] = "=" THEN 0 ELSE Base64Value(d[4])
         IN  <<v1 * 4 + v2 \div 16>>
             \o (IF d[3] = "=" THEN <<>> ELSE <<(v2 % 16) * 16 + v3 \div 4>>)
             \o (IF d[4] = "=" THEN <<>> ELSE <<(v3 % 4) * 64 + v4>>)
             \o BufferFromBase64(SubSeq(d, 5, Len(d)))

\* s.substring(from, to), counting from zero
Substring(s, from, to) ==
    SubSeq(s, from + 1, IF to < Len(s) THEN to ELSE Len(s))

\* s.replace(/[:.]/g, '-')
ReplaceColonsAndDots(s) ==
    [i \in 1..Len(s) |-> IF s[i] \in {":", "."} THEN "-" ELSE s[i]]

\* new Date().toISOString().replace(/[:.]/g, '-').split('T')[0]
DateStamp(iso) == Split(ReplaceColonsAndDots(iso), "T")[1]

\* new Date().toISOString().replace(/[:.]/g, '-')
TimeStamp(iso) == ReplaceColonsAndDots(iso)

\* Math.random().toString(36).substring(2, 8)
RandomStr(random36) == Substring(random36, 2, 8)

\* the text of a model type inside a file name
ModelTypeText(m) == IF m = "flux" THEN flux ELSE gptImage1

\* the path the operating system acts on
Resolve(p) ==
    LET q == IF Len(p) > 0 /\ p[1] = slash THEN PathNormalize(p) ELSE PathJoin(Cwd, p)
    IN  IF Len(q) > 1 /\ q[Len(q)] = slash THEN SubSeq(q, 1, Len(q) - 1) ELSE q

\* an absolute path and the directories above it
RECURSIVE UpTo(_)
UpTo(p) == IF p = <<slash>> THEN {p} ELSE {p} \cup UpTo(PathDirname(p))

ErrNotDirectory == <<"ENOTDIR", "not a directory">>

ErrNoEntry == <<"ENOENT", "no such file or directory">>

ErrIsDirectory == <<"EISDIR", "illegal operation on a directory">>

ErrIo == <<"EIO", "i/o error">>

\* fs.mkdir(dir, { recursive: true })
Mkdir(files, dir) ==
    IF \E q \in UpTo(Resolve(dir)) : q \in DOMAIN files.files
    THEN Thrown(ErrNotDirectory)
    ELSE Returned([files EXCEPT !.dirs = @ \cup UpTo(Resolve(dir))])

\* fs.writeFile(filePath, buffer)
WriteFile(files, filePath, buffer) ==
    IF Resolve(filePath) \in files.dirs THEN Thrown(ErrIsDirectory)
    ELSE IF PathDirname(Resolve(filePath)) \notin files.dirs THEN Thrown(ErrNoEntry)
    ELSE Returned([files EXCEPT !.files = (Resolve(filePath) :> buffer) @@ @])

\* the directory chosen by saveBase64Image of the provider classes
ProviderOutputDir(self, workingDirectory) ==
    IF Falsy(workingDirectory) THEN self.outputDir
    ELSE PathJoin(workingDirectory, generatedImages)

\* the file name chosen by saveBase64Image of the three classes
SaveFilename(class, modelType, format, customFilename, iso, random36) ==
    IF ~Falsy(customFilename) THEN customFilename \o <<".">> \o format
    ELSE IF class = "AzureOpenAIProvider"
    THEN <<"a", "z", "u", "r", "e", "-">> \o ModelTypeText(modelType) \o <<"-">> \o DateStamp(iso)
         \o <<"-">> \o RandomStr(random36) \o <<".">> \o format
    ELSE IF class = "GoogleNanaBananaProvider"
    THEN <<"g", "o", "o", "g", "l", "e", "-", "n", "a", "n", "a", "b", "a", "n", "-">> \o DateStamp(iso) \o <<"-">> \o RandomStr(random36) \o <<".">> \o format
    ELSE <<"i", "m", "a", "g", "e", "-">> \o TimeStamp(iso) \o <<".">> \o format

\* mimeType.split('/')[1] || 'png'
FormatOfMime(mimeType) ==
    IF Len(Split(mimeType, slash)) < 2 \/ Split(mimeType, slash)[2] = Empty THEN png
    ELSE Split(mimeType, slash)[2]

imagePng == <<"i", "m", "a", "g", "e", "/", "p", "n", "g">>

fileScheme == <<"f", "i", "l", "e", ":", "/", "/">>

(***************************************************************************)
(* The server after startup: one provider, and generation requests that    *)
(* suspend at the remote call, at mkdir and at writeFile.                  *)
(***************************************************************************)
InvIds == {1}

Idle == [pc |-> "idle"]

NoRequest == <<>>

NoLocals == <<>>

NoStatus == 0 - 1

NoAnswer == [kind |-> "none"]

ErrNoImageData == <<"No image data in response">>

ErrNoImages == <<"Gemini did not return any images">>

ErrNoImageBytes == <<"Gemini did not return image data">>

ErrNoImage == <<"Gemini did not return an image">>

GoogleFailurePrefix == "Google Nano Banana image generation failed: "

\* the error object of a failed HTTP call: axios and the Gemini client put
\* the status beside the message
Upstream(message, status) == [state |-> "thrown", message |-> message, status |-> status]

\* a catch that wraps the error in every class
Caught_wrapped(class, error) ==
    Thrown(<<"image generation failed: ">> \o error.message)

\* a catch that rethrows the error in every class
Caught_rethrown(class, error) == error

\* catch (error) of generateImage: Azure and ImageGenerator rethrow the
\* error, Google replaces it by a new Error that carries its message
Caught(class, error) ==
    IF class = "GoogleNanaBananaProvider"
    THEN Thrown(<<GoogleFailurePrefix>> \o error.message)
    ELSE error

\* the zod shapes of the two tools: the fields of a request that do not fit
QualityEnum == {"standard", "hd", "low", "medium", "high"}

StyleEnum == {"modern", "minimal", "professional", "playful", "dark", "glassmorphism"}

TypeEnum == {"mobile app", "web app", "dashboard", "landing page", "e-commerce", "social media"}

generateImageSchema(args) ==
    (IF args.text = NoValue \/ Len(args.text) < MinPromptLength THEN <<"prompt">> ELSE <<>>)
    \o (IF args.quality \notin QualityEnum \cup {NoValue} THEN <<"quality">> ELSE <<>>)

generateUIImageSchema_min10(args) ==
    (IF args.text = NoValue \/ Len(args.text) < MinPromptLength
     THEN <<"description">> ELSE <<>>)
    \o (IF args.style \notin StyleEnum \cup {NoValue} THEN <<"style">> ELSE <<>>)
    \o (IF args.type \notin TypeEnum \cup {NoValue} THEN <<"type">> ELSE <<>>)

generateUIImageSchema(args) ==
    (IF args.text = NoValue \/ Len(args.text) < MinDescriptionLength
     THEN <<"description">> ELSE <<>>)
    \o (IF args.style \notin StyleEnum \cup {NoValue} THEN <<"style">> ELSE <<>>)
    \o (IF args.type \notin TypeEnum \cup {NoValue} THEN <<"type">> ELSE <<>>)

\* the protocol layer answers a request that does not fit the shape itself,
\* naming the fields; the handler is not run
ErrInvalidArguments(tool, fields) == <<"Invalid arguments for tool", tool>> \o fields

\* an invocation right after its synchronous part
Started(entry, class, args, handed, prompt, begun) ==
    [pc          |-> IF begun.state = "awaiting" THEN "remote" ELSE "failed",
     entry       |-> entry,
     class       |-> class,
     args        |-> args,
     handed      |-> handed,
     prompt      |-> prompt,
     remoteCalls |-> IF begun.state = "awaiting" THEN 1 ELSE 0,
     request     |-> IF begun.state = "awaiting" THEN begun.request ELSE NoRequest,
     locals      |-> IF begun.state = "awaiting" THEN begun.locals ELSE NoLocals,
     answer      |-> NoAnswer,
     b64         |-> Absent,
     mimeType    |-> Absent,
     format      |-> Absent,
     outputDir   |-> Absent,
     filePath    |-> Absent,
     mkdirs      |-> 0,
     writes      |-> 0,
     outcome     |-> IF begun.state = "awaiting" THEN Pending ELSE begun]

Args(text, style, type, quality, size, filename, workingDirectory) ==
    [text |-> text, style |-> style, type |-> type, quality |-> quality, size |-> size,
     filename |-> filename, workingDirectory |-> workingDirectory]

\* the handler of generate_image, index.js lines 90-98
generate_image(self, args) ==
    IF generateImageSchema(args) # <<>>
    THEN Started("generate_image", self.class, args, 0, NoValue,
                 Thrown(ErrInvalidArguments("generate_image", generateImageSchema(args))))
    ELSE Started("generate_image", self.class, args, 1, args.text,
                 Provider_generateImage(self, args.text,
                     [quality           |-> ElseStr(args.quality, "standard"),
                      size              |-> ElseText(args.size, medium),
                      outputFormat      |-> png,
                      outputCompression |-> 100,
                      filename          |-> ElseText(args.filename, Absent),
                      workingDirectory  |-> ElseText(args.workingDirectory, Absent)]))

\* the handler of generate_ui_image, index.js lines 153-164
generate_ui_image(self, args) ==
    IF generateUIImageSchema(args) # <<>>
    THEN Started("generate_ui_image", self.class, args, 0, NoValue,
                 Thrown(ErrInvalidArguments("generate_ui_image", generateUIImageSchema(args))))
    ELSE LET uiPrompt == buildUIPrompt(args.text, ElseStr(args.style, "modern"),
                                       ElseStr(args.type, "web app"))
         IN  Started("generate_ui_image", self.class, args, 1, uiPrompt,
                     Provider_generateImage(self, uiPrompt,
                         [quality           |-> "standard",
                          size              |-> ElseText(args.size, portrait),
                          outputFormat      |-> png,
                          outputCompression |-> 100,
                          filename          |-> Absent,
                          workingDirectory  |-> ElseText(args.workingDirectory, Absent)]))

\* provider.generateImage(prompt, options) called by a program
Options(args) ==
    [quality |-> args.quality, size |-> args.size, outputFormat |-> Absent,
     outputCompression |-> 100, filename |-> args.filename,
     workingDirectory |-> args.workingDirectory]

generateImage(self, args) ==
    Started("generateImage", self.class, args, 1, args.text,
            Provider_generateImage(self, args.text, Options(args)))

\* ImageGenerator.generateImage(prompt, options) called by a program
ImageGenerator_call(cfg, args) ==
    Started("ImageGenerator.generateImage", "ImageGenerator", args, 1, args.text,
            ImageGenerator_generateImage(cfg, args.text, Options(args)))

\* ImageGenerator.generateUIImage({ description, style, type, size })
ImageGenerator_generateUIImage(cfg, args) ==
    IF FalsyStr(args.text)
    THEN Started("ImageGenerator.generateUIImage", "ImageGenerator", args, 0, NoValue,
                 Thrown(ErrDescriptionRequired))
    ELSE IF Len(args.text) < MinDescriptionLength
    THEN Started("ImageGenerator.generateUIImage", "ImageGenerator", args, 0, NoValue,
                 Thrown(ErrDescriptionTooShort))
    ELSE LET prompt == ImageGenerator_buildUIPrompt(args.text, OrStr(args.style, "modern"),
                                                    OrStr(args.type, "web app"))
         IN  Started("ImageGenerator.generateUIImage", "ImageGenerator", args, 1, prompt,
                     ImageGenerator_generateImage(cfg, prompt,
                         [quality           |-> "standard",
                          size              |-> OrText(args.size, portrait),
                          outputFormat      |-> png,
                          outputCompression |-> 100,
                          filename          |-> Absent,
                          workingDirectory  |-> Absent]))

\* what the remote service can answer
\* one byte (66) and two bytes (65, 66)
Payloads == {<<"Q", "g", "=", "=">>, <<"Q", "U", "I", "=">>}

imageJpeg == <<"i", "m", "a", "g", "e", "/", "j", "p", "e", "g">>

Response(kind, images, b64, mimeType, status, message) ==
    [kind |-> kind, images |-> images, b64 |-> b64, mimeType |-> mimeType,
     status |-> status, message |-> message]

Failures ==
    {Response("error", 0, Absent, Absent, 429, <<"Request failed with status code 429">>),
     Response("error", 0, Absent, Absent, NoStatus, <<"timeout of 120000ms exceeded">>)}

Responses ==
    {Response("data", 1, p, m, 200, <<>>) : p \in Payloads, m \in {Absent, imageJpeg}}
    \cup {Response("data", 1, Absent, Absent, 200, <<>>),
          Response("data", 0, Absent, Absent, 200, <<>>)}
    \cup Failures

\* a request to a URL that has no host cannot be answered
Answers(r) ==
    IF r.class = "GoogleNanaBananaProvider" THEN Responses
    ELSE IF SubSeq(r.request.url, 1, 4) # <<"h", "t", "t", "p">> THEN Failures
    ELSE {a \in Responses : a.mimeType = Absent}

\* a response without an image saved as an empty file
Received_emptyImage(r, answer) ==
    LET first    == IF answer.images = 0 THEN Absent ELSE answer.b64
        mimeType == IF answer.images = 0 THEN imagePng ELSE OrText(answer.mimeType, imagePng)
    IN  IF answer.kind = "error"
        THEN Caught(r.class, Upstream(answer.message, answer.status))
        ELSE IF r.class = "GoogleNanaBananaProvider"
        THEN IF r.request.api = "generateImages" /\ answer.images = 0
             THEN Caught(r.class, Thrown(ErrNoImages))
             ELSE IF Falsy(first)
             THEN Caught(r.class, Thrown(IF r.request.api = "generateImages"
                                         THEN ErrNoImageBytes ELSE ErrNoImage))
             ELSE Returned([b64 |-> first, mimeType |-> mimeType,
                            format |-> FormatOfMime(mimeType)])
        ELSE IF Falsy(first) THEN Returned([b64 |-> Empty, mimeType |-> imagePng,
                                              format |-> r.locals.outputFormat])
        ELSE Returned([b64 |-> first, mimeType |-> imagePng,
                       format |-> r.locals.outputFormat])

\* the lines between the remote call and saveBase64Image
Received(r, answer) ==
    LET first    == IF answer.images = 0 THEN Absent ELSE answer.b64
        mimeType == IF answer.images = 0 THEN imagePng ELSE OrText(answer.mimeType, imagePng)
    IN  IF answer.kind = "error"
        THEN Caught(r.class, Upstream(answer.message, answer.status))
        ELSE IF r.class = "GoogleNanaBananaProvider"
        THEN IF r.request.api = "generateImages" /\ answer.images = 0
             THEN Caught(r.class, Thrown(ErrNoImages))
             ELSE IF Falsy(first)
             THEN Caught(r.class, Thrown(IF r.request.api = "generateImages"
                                         THEN ErrNoImageBytes ELSE ErrNoImage))
             ELSE Returned([b64 |-> first, mimeType |-> mimeType,
                            format |-> FormatOfMime(mimeType)])
        ELSE IF Falsy(first) THEN Caught(r.class, Thrown(ErrNoImageData))
        ELSE Returned([b64 |-> first, mimeType |-> imagePng,
                       format |-> r.locals.outputFormat])

\* the first line of saveBase64Image
OutputDirOf(r) ==
    IF r.class = "ImageGenerator" THEN config.outputDir
    ELSE ProviderOutputDir(imageProvider, r.locals.workingDirectory)

\* the object generateImage returns
ResultOf(r) ==
    IF r.class = "AzureOpenAIProvider"
    THEN [path |-> r.filePath, url |-> fileScheme \o r.filePath, base64 |-> r.b64,
          prompt |-> r.locals.prompt, size |-> r.locals.pixelSize,
          quality |-> r.locals.quality, provider |-> "azure-openai",
          modelType |-> imageProvider.modelType]
    ELSE IF r.class = "GoogleNanaBananaProvider"
    THEN [base64 |-> r.b64, mimeType |-> r.mimeType, path |-> r.filePath,
          url |-> fileScheme \o r.filePath, prompt |-> r.locals.prompt,
          size |-> "auto", quality |-> "standard", provider |-> "google-nano-banana"]
    ELSE [path |-> r.filePath, url |-> fileScheme \o r.filePath,
          prompt |-> r.locals.prompt, size |-> r.locals.pixelSize,
          quality |-> r.locals.quality, modelType |-> r.locals.modelType]

\* the clock and Math.random().toString(36)
Clock == {<<"2", "0", "2", "5", "-", "0", "6", "-", "0", "1", "T", "2", "3", ":", "5", "9", ":", "5", "9", ".", "9", "9", "9", "Z">>, <<"2", "0", "2", "6", "-", "0", "1", "-", "0", "2", "T", "0", "0", ":", "0", "0", ":", "0", "0", ".", "0", "0", "0", "Z">>}

Randoms == {<<"0">>, <<"0", ".", "i">>, <<"0", ".", "x", "7", "k", "2", "p", "q", "9", "a">>}

\* request inputs
NinePrompt == "nine char"

TenPrompt == "a red boat"

LongPrompt == "a lighthouse at dusk, oil painting"

NineteenDescription == "a login form screen"

TwentyDescription == "a login form screen."

LongDescription == "a task list with cards and a button"

custom768 == <<"1", "0", "2", "4", "x", "7", "6", "8">>

Small == <<"S", "m", "a", "l", "l">>

foo == <<"f", "o", "o">>

upX == <<".", ".", "/", "x">>

proj == <<"/", "p", "r", "o", "j">>

rel == <<"r", "e", "l">>

GenerateImageArgs ==
    {Args(t, NoValue, NoValue, q, s, f, w) :
        t \in {NoValue, NinePrompt, TenPrompt},
        q \in {NoValue, "hd", "ultra"},
        s \in {Absent, custom768, Small},
        f \in {Absent, foo, upX},
        w \in {Absent, proj, rel}}

GenerateUIImageArgs ==
    {Args(t, st, ty, NoValue, s, Absent, w) :
        t \in {NoValue, "short", NineteenDescription, TwentyDescription, LongDescription},
        st \in {NoValue, "dark", "neon"},
        ty \in {NoValue, "dashboard"},
        s \in {Absent, landscape},
        w \in {Absent, proj}}

DirectArgs ==
    {Args(t, NoValue, NoValue, q, s, f, w) :
        t \in {NoValue, "", "short", NinePrompt, TenPrompt, LongPrompt},
        q \in {NoValue, "low"},
        s \in {Absent, large},
        f \in {Absent, foo, upX},
        w \in {Absent, proj}}

DirectUIArgs ==
    {Args(t, st, ty, NoValue, s, Absent, Absent) :
        t \in {NoValue, "", "short", NineteenDescription, TwentyDescription, LongDescription},
        st \in {NoValue, "dark"},
        ty \in {NoValue, "dashboard"},
        s \in {Absent, landscape}}

\* the environments the server is started in
ServerEnvs ==
    {[IMAGE_PROVIDER |-> NoValue, GEMINI_API_KEY |-> "gemini-key",
      AZURE_OPENAI_ENDPOINT |-> Absent, AZURE_OPENAI_DEPLOYMENT |-> Absent,
      AZURE_OPENAI_API_VERSION |-> Absent, AZURE_OPENAI_API_KEY |-> NoValue,
      OUTPUT_DIR |-> Absent],
     [IMAGE_PROVIDER |-> "azure", GEMINI_API_KEY |-> NoValue,
      AZURE_OPENAI_ENDPOINT |-> EndpointPlain, AZURE_OPENAI_DEPLOYMENT |-> Absent,
      AZURE_OPENAI_API_VERSION |-> Absent, AZURE_OPENAI_API_KEY |-> "azure-key",
      OUTPUT_DIR |-> OutDir],
     [IMAGE_PROVIDER |-> "azure", GEMINI_API_KEY |-> NoValue,
      AZURE_OPENAI_ENDPOINT |-> EndpointSlash, AZURE_OPENAI_DEPLOYMENT |-> gptImage1,
      AZURE_OPENAI_API_VERSION |-> Absent, AZURE_OPENAI_API_KEY |-> "azure-key",
      OUTPUT_DIR |-> Absent]}

\* the disk before the request
Disks ==
    {[dirs |-> UpTo(Cwd), files |-> <<>>],
     [dirs |-> UpTo(Cwd) \cup UpTo(OutDir) \cup UpTo(PathJoin(Cwd, generatedImages))
               \cup UpTo(PathJoin(proj, generatedImages)),
      files |-> (PathJoin(PathJoin(proj, generatedImages), <<"f", "o", "o", ".", "p", "n", "g">>) :> <<1, 2, 3>>)],
     [dirs |-> UpTo(Cwd),
      files |-> (PathJoin(Cwd, generatedImages) :> <<7>>) @@ (OutDir :> <<7>>)]}

\* index.js lines 19-27: the configuration is validated and the provider is
\* built once; the server serves only when both succeeded
Init ==
    /\ env \in ServerEnvs
    /\ config = Config(env)
    /\ Config_validate(config).state = "returned"
    /\ \E copy \in GoogleCopies :
          /\ createImageProvider(config, copy).state = "returned"
          /\ imageProvider = createImageProvider(config, copy).value
    /\ call = [fn |-> "serve"]
    /\ ret = Pending
    /\ fs \in Disks
    /\ inv = [i \in InvIds |-> Idle]

Begin(i, started) ==
    /\ inv[i].pc = "idle"
    /\ inv' = [inv EXCEPT ![i] = started]
    /\ UNCHANGED <<call, ret, env, config, imageProvider, fs>>

ToolGenerateImage(i) ==
    \E args \in GenerateImageArgs : Begin(i, generate_image(imageProvider, args))

ToolGenerateUIImage(i) ==
    \E args \in GenerateUIImageArgs : Begin(i, generate_ui_image(imageProvider, args))

CallGenerateImage(i) ==
    \E args \in DirectArgs : Begin(i, generateImage(imageProvider, args))

CallImageGeneratorGenerateImage(i) ==
    \E args \in DirectArgs : Begin(i, ImageGenerator_call(config, args))

CallImageGeneratorGenerateUIImage(i) ==
    \E args \in DirectUIArgs : Begin(i, ImageGenerator_generateUIImage(config, args))

\* a remote call that is sent again when it failed
RemoteResponds_retry(i) ==
    /\ inv[i].pc = "remote"
    /\ \E answer \in Answers(inv[i]) :
          LET got == Received(inv[i], answer)
          IN  inv' = [inv EXCEPT ![i] =
                        IF got.state = "thrown" /\ inv[i].remoteCalls < 2
                        THEN [@ EXCEPT !.remoteCalls = @ + 1, !.answer = answer]
                        ELSE IF got.state = "thrown"
                        THEN [@ EXCEPT !.pc = "failed", !.answer = answer, !.outcome = got]
                        ELSE [@ EXCEPT !.pc = "mkdir", !.answer = answer,
                                       !.b64 = got.value.b64,
                                       !.mimeType = got.value.mimeType,
                                       !.format = got.value.format,
                                       !.outputDir = OutputDirOf(inv[i])]]
    /\ UNCHANGED <<call, ret, env, config, imageProvider, fs>>

\* the remote call settles; on image data saveBase64Image starts and suspends
\* at fs.mkdir
RemoteResponds(i) ==
    /\ inv[i].pc = "remote"
    /\ \E answer \in Answers(inv[i]) :
          LET got == Received(inv[i], answer)
          IN  inv' = [inv EXCEPT ![i] =
                        IF got.state = "thrown"
                        THEN [@ EXCEPT !.pc = "failed", !.answer = answer, !.outcome = got]
                        ELSE [@ EXCEPT !.pc = "mkdir", !.answer = answer,
                                       !.b64 = got.value.b64,
                                       !.mimeType = got.value.mimeType,
                                       !.format = got.value.format,
                                       !.outputDir = OutputDirOf(inv[i])]]
    /\ UNCHANGED <<call, ret, env, config, imageProvider, fs>>

\* fs.mkdir settles; the file name is chosen and fs.writeFile is started
MkdirCompletes(i) ==
    /\ inv[i].pc = "mkdir"
    /\ LET made == Mkdir(fs, inv[i].outputDir)
       IN  IF made.state = "thrown"
           THEN /\ inv' = [inv EXCEPT ![i] = [@ EXCEPT !.pc = "failed",
                                                       !.outcome = Caught(inv[i].class, made)]]
                /\ fs' = fs
           ELSE /\ fs' = made.value
                /\ \E iso \in Clock, random36 \in Randoms :
                      inv' = [inv EXCEPT ![i] =
                                [@ EXCEPT !.pc = "write", !.mkdirs = @ + 1,
                                          !.filePath = PathJoin(inv[i].outputDir,
                                              SaveFilename(inv[i].class,
                                                  IF inv[i].class = "GoogleNanaBananaProvider"
                                                  THEN "none"
                                                  ELSE IF inv[i].class = "ImageGenerator"
                                                  THEN inv[i].locals.modelType
                                                  ELSE imageProvider.modelType,
                                                  inv[i].format, inv[i].locals.filename,
                                                  iso, random36))]]
    /\ UNCHANGED <<call, ret, env, config, imageProvider>>

\* fs.writeFile settles; generateImage returns its result or raises
WriteCompletes(i) ==
    /\ inv[i].pc = "write"
    /\ \E device \in {"ok", "failing"} :
          LET wrote == IF device = "ok"
                       THEN WriteFile(fs, inv[i].filePath, BufferFromBase64(inv[i].b64))
                       ELSE Thrown(ErrIo)
          IN  IF wrote.state = "thrown"
              THEN /\ inv' = [inv EXCEPT ![i] = [@ EXCEPT !.pc = "failed",
                                                          !.outcome = Caught(inv[i].class, wrote)]]
                   /\ fs' = fs
              ELSE /\ fs' = wrote.value
                   /\ inv' = [inv EXCEPT ![i] = [@ EXCEPT !.pc = "succeeded", !.writes = @ + 1,
                                                          !.outcome = Returned(ResultOf(inv[i]))]]
    /\ UNCHANGED <<call, ret, env, config, imageProvider>>

Next ==
    \E i \in InvIds :
        \/ ToolGenerateImage(i)
        \/ ToolGenerateUIImage(i)
        \/ CallGenerateImage(i)
        \/ CallImageGeneratorGenerateImage(i)
        \/ CallImageGeneratorGenerateUIImage(i)
        \/ RemoteResponds(i)
        \/ MkdirCompletes(i)
        \/ WriteCompletes(i)

Spec == Init /\ [][Next]_vars

(***************************************************************************)
(* Claims about one generation request.                                    *)
(***************************************************************************)
Active == {i \in DOMAIN inv : inv[i].pc # "idle"}

Entered == {i \in Active : inv[i].handed = 1}

PromptErrors == {Thrown(ErrPromptRequired), Thrown(ErrPromptTooShort)}

\* C3 (as stated): in every provider variant a generateImage call whose
\* prompt is absent or empty fails with "prompt is required", one whose prompt
\* has fewer than 10 characters fails with the too-short error, neither has
\* attempted a remote call, and a prompt of 10 characters or more never gets
\* one of the two prompt errors.
C3_PromptRule ==
    \A i \in Entered :
        /\ FalsyStr(inv[i].prompt)
              => inv[i].outcome = Thrown(ErrPromptRequired) /\ inv[i].remoteCalls = 0
        /\ ~FalsyStr(inv[i].prompt) /\ Len(inv[i].prompt) < 10
              => inv[i].outcome = Thrown(ErrPromptTooShort) /\ inv[i].remoteCalls = 0
        /\ ~FalsyStr(inv[i].prompt) /\ Len(inv[i].prompt) >= 10
              => inv[i].outcome \notin PromptErrors

UIRequests ==
    {i \in Active : inv[i].entry \in {"generate_ui_image", "ImageGenerator.generateUIImage"}}

DescriptionErrors == {Thrown(ErrDescriptionRequired), Thrown(ErrDescriptionTooShort)}

RejectedForDescription(i) ==
    /\ inv[i].outcome.state = "thrown"
    /\ \/ inv[i].outcome \in DescriptionErrors
       \/ /\ inv[i].handed = 0
          /\ Mentions(inv[i].outcome.message, "description")

\* C4: a UI-mockup request whose description is absent or shorter than 20
\* characters has failed with no prompt handed to generateImage and no
\* remote call attempted; a description of 20 or more characters is never
\* rejected for its description.
C4_DescriptionRule ==
    \A i \in UIRequests :
        IF inv[i].args.text = NoValue \/ Len(inv[i].args.text) < 20
        THEN /\ inv[i].pc = "failed"
             /\ inv[i].handed = 0
             /\ inv[i].remoteCalls = 0
             /\ RejectedForDescription(i)
        ELSE ~RejectedForDescription(i)

\* C4 witness: a tool request with a 19-character description has been
\* rejected, and so has a direct one on another run; here the tool's.
C4_Witness ==
    \E i \in UIRequests :
        /\ inv[i].entry = "generate_ui_image"
        /\ Len(inv[i].args.text) = 19
        /\ inv[i].args.style = NoValue
        /\ inv[i].pc = "failed"
        /\ inv[i].remoteCalls = 0

Saved == {i \in Active : inv[i].pc = "succeeded"}

IsDate(t) ==
    /\ Len(t) = 10
    /\ \A k \in {1, 2, 3, 4, 6, 7, 9, 10} : t[k] \in Digits
    /\ t[5] = "-" /\ t[8] = "-"

\* {tag}-{YYYY-MM-DD}-{suffix}.{format} with a suffix of at least one character
MatchesGeneratedName(name, tag, format) ==
    LET head == Len(tag) + 12
        tail == Len(format) + 1
    IN  /\ Len(name) >= head + 1 + tail
        /\ SubSeq(name, 1, Len(tag)) = tag
        /\ name[Len(tag) + 1] = "-"
        /\ IsDate(SubSeq(name, Len(tag) + 2, Len(tag) + 11))
        /\ name[head] = "-"
        /\ SubSeq(name, Len(name) - tail + 1, Len(name)) = <<".">> \o format
        /\ \A k \in (head + 1)..(Len(name) - tail) : name[k] \notin {".", "-", slash}

NameTag(i) ==
    IF inv[i].class = "AzureOpenAIProvider"
    THEN <<"a", "z", "u", "r", "e", "-">> \o ModelTypeText(imageProvider.modelType)
    ELSE <<"g", "o", "o", "g", "l", "e", "-", "n", "a", "n", "a", "b", "a", "n">>

\* C8 (as stated): the basename of a saved file is the custom filename, a
\* dot and the format when a custom filename was given, and otherwise the
\* provider's tag, the date, a non-empty random suffix and the format.
C8_FilenameRule ==
    \A i \in Saved :
        inv[i].class # "ImageGenerator" =>
            IF ~Falsy(inv[i].locals.filename)
            THEN PathBasename(inv[i].outcome.value.path)
                     = inv[i].locals.filename \o <<".">> \o inv[i].format
            ELSE MatchesGeneratedName(PathBasename(inv[i].outcome.value.path),
                                      NameTag(i), inv[i].format)

\* the directory the request asks for
RequestedDir(i) ==
    IF ~Falsy(inv[i].args.workingDirectory)
    THEN PathJoin(inv[i].args.workingDirectory, generatedImages)
    ELSE IF inv[i].class = "ImageGenerator" THEN config.outputDir
    ELSE imageProvider.outputDir

\* C9 (as stated): the file of a successful generation lies in
\* workingDirectory/generated-images when a workingDirectory was supplied and
\* otherwise in the configured default directory, that directory exists with
\* its parents, and no generation fails because the directory was there.
C9_DirectoryRule ==
    /\ \A i \in Saved :
          /\ PathDirname(Resolve(inv[i].outcome.value.path)) = Resolve(RequestedDir(i))
          /\ Resolve(inv[i].outcome.value.path) \in DOMAIN fs.files
          /\ UpTo(Resolve(RequestedDir(i))) \subseteq fs.dirs
    /\ \A i \in Active :
          /\ inv[i].pc = "failed"
          /\ inv[i].outputDir # Absent
          /\ inv[i].filePath = Absent
          => Resolve(inv[i].outputDir) \notin fs.dirs

(***************************************************************************)
(* The synchronous validators: validateQuality, Config.validate() on the   *)
(* exported Config, and validate() of a provider whose public fields a     *)
(* program may reassign (as the unit tests do with provider.endpoint = '').*)
(***************************************************************************)
Qualities == {NoValue, "", "standard", "hd", "low", "medium", "high", "ultra", "HD", "Standard"}

QualityModelTypes == {"flux", "gpt-image-1", "dalle", "Flux", NoValue}

\* AzureOpenAIProvider.validate()
AzureOpenAIProvider_validate(self) ==
    IF Falsy(self.endpoint) THEN Thrown(<<"Azure OpenAI", "endpoint", "is required">>)
    ELSE IF FalsyStr(self.apiKey) THEN Thrown(<<"Azure OpenAI", "API key", "is required">>)
    ELSE IF Falsy(self.deployment) THEN Thrown(<<"Azure OpenAI", "deployment", "is required">>)
    ELSE IF Falsy(self.apiVersion) THEN Thrown(<<"Azure OpenAI", "API version", "is required">>)
    ELSE Returned(NoValue)

\* GoogleNanaBananaProvider.validate()
GoogleNanaBananaProvider_validate(self) ==
    IF FalsyStr(self.config.apiKey) THEN Thrown(<<"Google Gemini", "API key", "is required">>)
    ELSE Returned(NoValue)

Provider_validate(self) ==
    IF self.class = "AzureOpenAIProvider" THEN AzureOpenAIProvider_validate(self)
    ELSE GoogleNanaBananaProvider_validate(self)

\* the providers that construction can return
ConstructedProviders ==
    {r.value : r \in {a \in {AzureOpenAIProvider(c) : c \in AzureConfigs} :
                         a.state = "returned"}}
    \cup {r.value : r \in {g \in {GoogleNanaBananaProvider(k, c) :
                                     k \in GoogleCopies, c \in GoogleConfigs} :
                              g.state = "returned"}}

\* provider.field = ''
Assigned(self, field) ==
    IF self.class = "GoogleNanaBananaProvider"
    THEN [self EXCEPT !.config.apiKey = ""]
    ELSE IF field = "apiKey" THEN [self EXCEPT !.apiKey = ""]
    ELSE [self EXCEPT ![field] = Empty]

AssignableFields(self) ==
    IF self.class = "GoogleNanaBananaProvider" THEN {"config.apiKey"}
    ELSE {"endpoint", "apiKey", "deployment", "apiVersion"}

InitValidate ==
    /\ \/ /\ call \in [fn : {"validateQuality"}, quality : Qualities,
                       modelType : QualityModelTypes]
          /\ env = NoEnv
          /\ config = NoObject
          /\ imageProvider = NoObject
       \/ /\ call = [fn |-> "import config"]
          /\ env \in Envs
          /\ config = Config(env)
          /\ imageProvider = NoObject
       \/ /\ call = [fn |-> "new provider"]
          /\ env = NoEnv
          /\ config = NoObject
          /\ imageProvider \in ConstructedProviders
    /\ ret = Pending
    /\ fs = NoFs
    /\ inv = NoInv

CallValidateQuality ==
    /\ call.fn = "validateQuality" /\ ret = Pending
    /\ ret' = validateQuality(call.quality, call.modelType)
    /\ UNCHANGED <<call, env, config, imageProvider, fs, inv>>

CallConfigValidate ==
    /\ config # NoObject /\ ret = Pending
    /\ call' = [fn |-> "Config.validate"]
    /\ ret' = Config_validate(config)
    /\ UNCHANGED <<env, config, imageProvider, fs, inv>>

AssignField ==
    /\ imageProvider # NoObject
    /\ \E field \in AssignableFields(imageProvider) :
          /\ call' = [fn |-> "assign", field |-> field]
          /\ imageProvider' = Assigned(imageProvider, field)
    /\ ret' = Pending
    /\ UNCHANGED <<env, config, fs, inv>>

CallValidate ==
    /\ imageProvider # NoObject
    /\ call' = [fn |-> "validate"]
    /\ ret' = Provider_validate(imageProvider)
    /\ UNCHANGED <<env, config, imageProvider, fs, inv>>

NextValidate ==
    \/ CallValidateQuality
    \/ CallConfigValidate
    \/ AssignField
    \/ CallValidate

SpecValidate == InitValidate /\ [][NextValidate]_vars

ConfigValidateDone == call.fn = "Config.validate" /\ ret # Pending

\* the required settings of the selected provider that are missing
MissingSettings ==
    IF config.provider = "google"
    THEN {n \in {"GEMINI_API_KEY"} : FalsyStr(config.geminiApiKey)}
    ELSE IF config.provider = "azure"
    THEN {n \in {"AZURE_OPENAI_ENDPOINT"} : Falsy(config.endpoint)}
         \cup {n \in {"AZURE_OPENAI_API_KEY"} : FalsyStr(config.apiKey)}
    ELSE {}

\* C11: Config.validate() passes exactly for google with a Gemini key or
\* azure with endpoint and API key, and otherwise throws one error whose
\* message has one line per missing setting of the selected provider and
\* names every one of them.
C11_ValidateAggregates ==
    ConfigValidateDone =>
        /\ ret.state = "returned"
              <=> \/ config.provider = "google" /\ ~FalsyStr(config.geminiApiKey)
                  \/ /\ config.provider = "azure"
                     /\ ~Falsy(config.endpoint) /\ ~FalsyStr(config.apiKey)
        /\ ret.state = "thrown" =>
              /\ \A n \in MissingSettings : Mentions(ret.message, n)
              /\ config.provider \in {"google", "azure"}
                    => Cardinality({k \in 1..Len(ret.message) : ret.message[k] = "  - "})
                          = Cardinality(MissingSettings)

\* C11 witness: azure with endpoint and API key both missing has been
\* validated and the one error names both.
C11_Witness ==
    /\ ConfigValidateDone
    /\ config.provider = "azure"
    /\ MissingSettings = {"AZURE_OPENAI_ENDPOINT", "AZURE_OPENAI_API_KEY"}
    /\ ret.state = "thrown"
    /\ Mentions(ret.message, "AZURE_OPENAI_ENDPOINT")
    /\ Mentions(ret.message, "AZURE_OPENAI_API_KEY")

QualityCallDone == call.fn = "validateQuality" /\ ret # Pending

LegalQualities(modelType) ==
    IF modelType = "flux" THEN {"standard", "hd"}
    ELSE IF modelType = "gpt-image-1" THEN {"low", "medium", "high"}
    ELSE Qualities

\* C12: validateQuality returns the quality unchanged exactly when it is in
\* the legal set of the model type ({standard, hd} for flux, {low, medium,
\* high} for gpt-image-1, everything for any other model type) and throws
\* the model type's quality error otherwise.
C12_QualityRule ==
    QualityCallDone =>
        IF call.quality \in LegalQualities(call.modelType)
        THEN ret = Returned(call.quality)
        ELSE /\ ret.state = "thrown"
             /\ call.modelType \in {"flux", "gpt-image-1"}
             /\ ret.message = IF call.modelType = "flux" THEN ErrFluxQuality ELSE ErrGptQuality

\* C12 witness: a flux-only quality has been refused for gpt-image-1.
C12_Witness ==
    /\ QualityCallDone
    /\ call.modelType = "gpt-image-1"
    /\ call.quality = "standard"
    /\ ret = Thrown(ErrGptQuality)

ProviderValidateDone == call.fn = "validate" /\ ret # Pending

\* the required items of a provider that are absent, by the words its
\* validate() uses for them
AbsentItems ==
    IF imageProvider.class = "GoogleNanaBananaProvider"
    THEN {n \in {"API key"} : FalsyStr(imageProvider.config.apiKey)}
    ELSE {n \in {"endpoint"} : Falsy(imageProvider.endpoint)}
         \cup {n \in {"API key"} : FalsyStr(imageProvider.apiKey)}
         \cup {n \in {"deployment"} : Falsy(imageProvider.deployment)}
         \cup {n \in {"API version"} : Falsy(imageProvider.apiVersion)}

\* C19 (as stated): validate() of a provider starts no remote call, passes
\* when nothing required is absent, and otherwise throws one error that
\* names every absent item.
C19_ProviderValidateAggregates ==
    ProviderValidateDone =>
        /\ inv = NoInv
        /\ ret.state = "returned" <=> AbsentItems = {}
        /\ ret.state = "thrown" => \A n \in AbsentItems : Mentions(ret.message, n)

(***************************************************************************)
(* The request as a state machine.                                         *)
(***************************************************************************)
Suspended(i) == inv[i].pc \in {"remote", "mkdir", "write"}

\* the promise an invocation is suspended on settles
Settles(i) == RemoteResponds(i) \/ MkdirCompletes(i) \/ WriteCompletes(i)

\* every pending promise settles: the HTTP client answers or times out
\* (timeout: 120000), and mkdir and writeFile complete or fail.  Settles(i)
\* is enabled exactly when invocation i is suspended, so this is weak
\* fairness of Settles(i) with its enabling condition written out.
Fairness ==
    \A i \in InvIds : []<>(~Suspended(i)) \/ []<><<Settles(i)>>_vars

SpecFair == Init /\ [][Next]_vars /\ Fairness

Terminal(i) == inv[i].pc \in {"succeeded", "failed"}

AtMostOnce ==
    \A i \in Active :
        /\ inv[i].remoteCalls <= 1
        /\ inv[i].writes <= 1
        /\ inv[i].pc = "succeeded" <=> inv[i].outcome.state = "returned"
        /\ inv[i].pc = "failed" <=> inv[i].outcome.state = "thrown"
        /\ Suspended(i) <=> inv[i].outcome = Pending

NoStepAfterEnd ==
    \A i \in DOMAIN inv :
        /\ inv[i].pc # "idle" /\ Terminal(i) => inv'[i] = inv[i]
        /\ inv[i].pc # "idle" /\ inv[i].answer # NoAnswer
              => inv'[i].remoteCalls = inv[i].remoteCalls

\* C13: an invocation issues at most one remote call and at most one file
\* write; it is Succeeded exactly when a result was returned and Failed
\* exactly when an error was raised, never both; once it has an answer it
\* sends nothing again, once Succeeded or Failed its record never changes,
\* and every suspended invocation does reach Succeeded or Failed.
C13_OneCallOneEnd ==
    /\ []AtMostOnce
    /\ [][NoStepAfterEnd]_vars
    /\ \A i \in InvIds : Suspended(i) ~> Terminal(i)

\* C13 witness: a remote failure has ended the invocation with one call made.
C13_Witness ==
    \E i \in Active :
        /\ inv[i].pc = "failed"
        /\ inv[i].answer.kind = "error"
        /\ inv[i].remoteCalls = 1
        /\ inv[i].writes = 0

(***************************************************************************)
(* What a request does with the remote answer.                             *)
(***************************************************************************)
Answered == {i \in Active : inv[i].answer # NoAnswer}

AzureAnswered == {i \in Answered : inv[i].class \in {"AzureOpenAIProvider", "ImageGenerator"}}

GoogleAnswered == {i \in Answered : inv[i].class = "GoogleNanaBananaProvider"}

\* a successful response whose first data entry has no base64 image
NoBase64(a) == a.kind = "data" /\ (a.images = 0 \/ Falsy(a.b64))

NothingSaved(i) == inv[i].writes = 0 /\ inv[i].mkdirs = 0 /\ inv[i].outputDir = Absent

\* C14: in the Azure variant a successful response without a base64 image in
\* its first data entry makes generateImage fail with "No image data in
\* response"; no directory is created, no file is written, the disk is left
\* as it was, and the one remote call is not repeated.
C14_NoImageData ==
    /\ [](\A i \in AzureAnswered :
            NoBase64(inv[i].answer) =>
                /\ inv[i].pc = "failed"
                /\ inv[i].outcome = Thrown(ErrNoImageData)
                /\ NothingSaved(i)
                /\ inv[i].remoteCalls = 1)
    /\ [][\A i \in DOMAIN inv :
            /\ inv'[i].pc # "idle"
            /\ inv'[i].class \in {"AzureOpenAIProvider", "ImageGenerator"}
            /\ inv'[i].answer # NoAnswer
            /\ NoBase64(inv'[i].answer)
            => fs' = fs]_vars

\* C14 witness: the Azure provider got a response whose data entry has no
\* b64_json and has failed.
C14_Witness ==
    \E i \in AzureAnswered :
        /\ inv[i].class = "AzureOpenAIProvider"
        /\ inv[i].answer.kind = "data"
        /\ inv[i].answer.images = 1
        /\ inv[i].answer.b64 = Absent
        /\ inv[i].pc = "failed"

\* C15: in the Azure variant a failed remote call raises the upstream error
\* itself, status and message unchanged, and nothing is created or written.
C15_UpstreamUnchanged ==
    /\ [](\A i \in AzureAnswered :
            inv[i].answer.kind = "error" =>
                /\ inv[i].pc = "failed"
                /\ inv[i].outcome = Upstream(inv[i].answer.message, inv[i].answer.status)
                /\ NothingSaved(i)
                /\ inv[i].remoteCalls = 1)
    /\ [][\A i \in DOMAIN inv :
            /\ inv'[i].pc # "idle"
            /\ inv'[i].class \in {"AzureOpenAIProvider", "ImageGenerator"}
            /\ inv'[i].answer.kind = "error"
            => fs' = fs]_vars

\* C15 witness: the Azure provider's call failed with status 429 and that
\* error is the outcome.
C15_Witness ==
    \E i \in AzureAnswered :
        /\ inv[i].class = "AzureOpenAIProvider"
        /\ inv[i].answer.kind = "error"
        /\ inv[i].answer.status = 429
        /\ inv[i].outcome.state = "thrown"
        /\ inv[i].outcome.status = 429

\* the message under a Google failure
Underlying(i) ==
    IF inv[i].answer.kind = "error" THEN inv[i].answer.message
    ELSE IF inv[i].request.api = "generateContent" THEN ErrNoImage
    ELSE IF inv[i].answer.images = 0 THEN ErrNoImages
    ELSE ErrNoImageBytes

\* C16: in the Google variant a failed remote call, and a successful one
\* with zero images or without image data, make generateImage fail with
\* "Google Nano Banana image generation failed: " followed by the underlying
\* message, and nothing is created or written.
C16_GoogleWraps ==
    /\ [](\A i \in GoogleAnswered :
            inv[i].answer.kind = "error" \/ NoBase64(inv[i].answer) =>
                /\ inv[i].pc = "failed"
                /\ inv[i].outcome = Thrown(<<GoogleFailurePrefix>> \o Underlying(i))
                /\ NothingSaved(i))
    /\ [][\A i \in DOMAIN inv :
            /\ inv'[i].pc # "idle"
            /\ inv'[i].class = "GoogleNanaBananaProvider"
            /\ inv'[i].answer # NoAnswer
            /\ inv'[i].answer.kind = "error" \/ NoBase64(inv'[i].answer)
            => fs' = fs]_vars

\* C16 witness: Gemini answered with zero images and the failure carries
\* the provider's prefix.
C16_Witness ==
    \E i \in GoogleAnswered :
        /\ inv[i].answer.kind = "data"
        /\ inv[i].answer.images = 0
        /\ inv[i].pc = "failed"
        /\ inv[i].outcome.message[1] = GoogleFailurePrefix

(***************************************************************************)
(* Two requests on one provider.  fs.writeFile(path, buffer) is carried    *)
(* out by the runtime as open(path, 'w'), write at offset 0 and close;     *)
(* with a single request in flight the three steps cannot be told from     *)
(* WriteCompletes, with two they interleave.                               *)
(***************************************************************************)
RaceIds == {1, 2}

RaceArgs ==
    {Args(LongPrompt, NoValue, NoValue, q, s, foo, w) :
        q \in {NoValue, "ultra"}, s \in {Absent, Small}, w \in {Absent, proj}}

RaceAnswers ==
    {a \in Responses : a.mimeType = Absent /\ (a.kind = "error" => a.status = 429)
                       /\ (a.kind = "data" => a.b64 # Absent)}

InitRace ==
    /\ env \in ServerEnvs
    /\ config = Config(env)
    /\ Config_validate(config).state = "returned"
    /\ \E copy \in GoogleCopies :
          /\ createImageProvider(config, copy).state = "returned"
          /\ imageProvider = createImageProvider(config, copy).value
    /\ call = [fn |-> "serve"]
    /\ ret = Pending
    /\ fs \in Disks
    /\ inv = [i \in RaceIds |-> Idle]

RaceCallGenerateImage(i) ==
    \E args \in RaceArgs : Begin(i, generateImage(imageProvider, args))

RaceRemoteResponds(i) ==
    /\ RemoteResponds(i)
    /\ inv'[i].answer \in RaceAnswers

\* bytes written at offset 0 over what the file holds
Overlay(bytes, held) == bytes \o SubSeq(held, Len(bytes) + 1, Len(held))

\* open(filePath, 'w'): the file is created or truncated
FileOpens(i) ==
    /\ inv[i].pc = "write"
    /\ \E device \in {"ok", "failing"} :
          LET opened == IF device = "ok" THEN WriteFile(fs, inv[i].filePath, <<>>)
                        ELSE Thrown(ErrIo)
          IN  IF opened.state = "thrown"
              THEN /\ inv' = [inv EXCEPT ![i] = [@ EXCEPT !.pc = "failed",
                                                          !.outcome = Caught(inv[i].class, opened)]]
                   /\ fs' = fs
              ELSE /\ fs' = opened.value
                   /\ inv' = [inv EXCEPT ![i] = [@ EXCEPT !.pc = "opened"]]
    /\ UNCHANGED <<call, ret, env, config, imageProvider>>

\* write(fd, buffer) on the descriptor, whose offset is 0
FileWrites(i) ==
    /\ inv[i].pc = "opened"
    /\ fs' = [fs EXCEPT !.files[Resolve(inv[i].filePath)] =
                            Overlay(BufferFromBase64(inv[i].b64), @)]
    /\ inv' = [inv EXCEPT ![i] = [@ EXCEPT !.pc = "written"]]
    /\ UNCHANGED <<call, ret, env, config, imageProvider>>

\* close(fd); the promise of fs.writeFile resolves and generateImage returns
FileCloses(i) ==
    /\ inv[i].pc = "written"
    /\ inv' = [inv EXCEPT ![i] = [@ EXCEPT !.pc = "succeeded", !.writes = @ + 1,
                                           !.outcome = Returned(ResultOf(inv[i]))]]
    /\ UNCHANGED <<call, ret, env, config, imageProvider, fs>>

NextRace ==
    \E i \in RaceIds :
        \/ RaceCallGenerateImage(i)
        \/ RaceRemoteResponds(i)
        \/ MkdirCompletes(i)
        \/ FileOpens(i)
        \/ FileWrites(i)
        \/ FileCloses(i)

SpecRace == InitRace /\ [][NextRace]_vars

GoogleRequests ==
    {i \in DOMAIN inv : inv[i].pc # "idle" /\ inv[i].class = "GoogleNanaBananaProvider"}

DifferOnlyInQualityAndSize(a, b) == [a EXCEPT !.quality = b.quality, !.size = b.size] = b

\* C17: in the Google variant two requests whose arguments differ only in
\* quality and size send the same remote request and keep the same locals,
\* and with the same answer at the same point they have the same outcome;
\* every successful result reports size "auto" and quality "standard".
C17_QualitySizeIgnored ==
    /\ \A i, j \in GoogleRequests :
          DifferOnlyInQualityAndSize(inv[i].args, inv[j].args) =>
              /\ inv[i].pc = "failed" /\ inv[i].answer = NoAnswer
                    <=> inv[j].pc = "failed" /\ inv[j].answer = NoAnswer
              /\ inv[i].request = inv[j].request
              /\ inv[i].locals = inv[j].locals
              /\ inv[i].answer = inv[j].answer /\ inv[i].pc = inv[j].pc
                    /\ inv[i].filePath = inv[j].filePath
                    => inv[i].outcome.state = inv[j].outcome.state
              /\ inv[i].answer = inv[j].answer /\ inv[i].pc = "succeeded"
                    /\ inv[j].pc = "succeeded"
                    => inv[i].outcome = inv[j].outcome
    /\ \A i \in GoogleRequests :
          inv[i].pc = "succeeded" =>
              /\ inv[i].outcome.value.size = "auto"
              /\ inv[i].outcome.value.quality = "standard"

\* C17 witness: two Google requests with different quality and size, the
\* same answer, both succeeded.
C17_Witness ==
    \E i, j \in GoogleRequests :
        /\ inv[i].args.quality = "ultra" /\ inv[j].args.quality = NoValue
        /\ inv[i].args.size = Small /\ inv[j].args.size = Absent
        /\ inv[i].answer = inv[j].answer
        /\ inv[i].pc = "succeeded" /\ inv[j].pc = "succeeded"

Bytes(i) == BufferFromBase64(inv[i].b64)

SameFile(i, j) ==
    /\ i # j
    /\ inv[i].pc # "idle" /\ inv[j].pc # "idle"
    /\ inv[i].filePath # Absent
    /\ inv[i].filePath = inv[j].filePath

\* C20: when two requests with the same custom filename and the same output
\* directory have both succeeded with the same path, the file holds the
\* bytes of one of them, and the request whose write completes last leaves
\* its own bytes in the file.
C20_LastWriteWins ==
    /\ [](\A i, j \in DOMAIN inv :
            SameFile(i, j) /\ inv[i].pc = "succeeded" /\ inv[j].pc = "succeeded"
            => fs.files[Resolve(inv[i].filePath)] \in {Bytes(i), Bytes(j)})
    /\ [][\A i, j \in DOMAIN inv :
            /\ SameFile(i, j)
            /\ inv[j].pc = "succeeded"
            /\ inv[i].pc = "written"
            /\ inv'[i].pc = "succeeded"
            => fs'.files[Resolve(inv[i].filePath)] = Bytes(i)]_vars

\* the file of two succeeded requests holds the image of neither
TornFile ==
    \E i, j \in DOMAIN inv :
        /\ SameFile(i, j) /\ inv[i].pc = "succeeded" /\ inv[j].pc = "succeeded"
        /\ fs.files[Resolve(inv[i].filePath)] \notin {Bytes(i), Bytes(j)}

(***************************************************************************)
(* A provider whose deployment field is assigned after construction, as    *)
(* the unit tests assign endpoint and apiKey.                              *)
(***************************************************************************)
Deployments == {DefaultDeployment, gptImage1}

DeploymentArgs ==
    {Args(LongPrompt, NoValue, NoValue, q, s, f, Absent) :
        q \in {NoValue, "low", "hd"}, s \in {Absent, custom768}, f \in {Absent, foo}}

\* provider.deployment = d
AssignDeployment ==
    /\ imageProvider.class = "AzureOpenAIProvider"
    /\ \A i \in InvIds : inv[i].pc = "idle"
    /\ \E d \in Deployments :
          /\ d # imageProvider.deployment
          /\ imageProvider' = [imageProvider EXCEPT !.deployment = d]
    /\ UNCHANGED <<call, ret, env, config, fs, inv>>

DeploymentCallGenerateImage(i) ==
    \E args \in DeploymentArgs : Begin(i, generateImage(imageProvider, args))

NextDeployment ==
    \/ AssignDeployment
    \/ \E i \in InvIds :
          \/ DeploymentCallGenerateImage(i)
          \/ RemoteResponds(i)
          \/ MkdirCompletes(i)
          \/ WriteCompletes(i)

SpecDeployment == Init /\ [][NextDeployment]_vars

\* the provider with its model type computed from the deployment it has now
Derived(self) == [self EXCEPT !.modelType = getModelType(self.deployment)]

\* C18: the model type the Azure provider validates quality and size with,
\* and reports in the result, is the one detected from the deployment the
\* provider has now; no stored model type differs from it.
C18_ModelTypeDerived ==
    /\ imageProvider.class = "AzureOpenAIProvider" =>
          imageProvider.modelType = getModelType(imageProvider.deployment)
    /\ \A i \in Active :
          inv[i].class = "AzureOpenAIProvider" =>
              /\ inv[i].request = generateImage(Derived(imageProvider), inv[i].args).request
              /\ inv[i].locals = generateImage(Derived(imageProvider), inv[i].args).locals
              /\ inv[i].answer = NoAnswer /\ inv[i].pc = "failed" =>
                    inv[i].outcome = generateImage(Derived(imageProvider), inv[i].args).outcome
              /\ inv[i].pc = "succeeded" =>
                    inv[i].outcome.value.modelType = getModelType(imageProvider.deployment)

\* a request validated with the model type of a deployment the provider no
\* longer has
StaleModelType ==
    \E i \in Active :
        /\ inv[i].class = "AzureOpenAIProvider"
        /\ imageProvider.deployment = gptImage1
        /\ inv[i].args.quality = "low"
        /\ inv[i].outcome = Thrown(ErrFluxQuality)

(***************************************************************************)
(* Error kinds of toPixels (checked under SpecSize).                       *)
(***************************************************************************)
\* the token after the shorthand lookup
Expanded(size) == IF size \in DOMAIN sizeMap THEN sizeMap[size] ELSE size

DimInBounds(n) == FluxMin <= n /\ n <= FluxMax

SizeCallDone == call.fn = "toPixels" /\ ret # Pending

FluxCallDone == SizeCallDone /\ call.modelType \in {"flux", NoValue}

\* C22: a token that after shorthand expansion does not match
\* <digits>x<digits> fails with the format error; under flux a matching
\* token with a dimension outside [256,1440], 0 included, fails with the
\* bounds error, and one in bounds but not a multiple of 32 fails with the
\* alignment error.
C22_SizeErrorKinds ==
    /\ SizeCallDone /\ ~MatchesDigitsXDigits(Expanded(call.size))
          => ret = Thrown(ErrSizeShorthand)
    /\ FluxCallDone =>
          \A a \in SizeDims, b \in SizeDims :
              \A w \in Spellings(a), h \in Spellings(b) :
                  call.size = WxH(w, h) =>
                      /\ ~DimInBounds(a) \/ ~DimInBounds(b)
                            => ret = Thrown(ErrFluxBounds)
                      /\ DimInBounds(a) /\ DimInBounds(b)
                            /\ (a % FluxStep # 0 \/ b % FluxStep # 0)
                            => ret = Thrown(ErrFluxAlign)

\* the same with a dimension of 0 left out of the bounds rule
C22_SizeErrorKindsButZero ==
    /\ SizeCallDone /\ ~MatchesDigitsXDigits(Expanded(call.size))
          => ret = Thrown(ErrSizeShorthand)
    /\ FluxCallDone =>
          \A a \in SizeDims, b \in SizeDims :
              \A w \in Spellings(a), h \in Spellings(b) :
                  call.size = WxH(w, h) =>
                      /\ a = 0 \/ b = 0 => ret = Thrown(ErrSizeFormat)
                      /\ a # 0 /\ b # 0 /\ (~DimInBounds(a) \/ ~DimInBounds(b))
                            => ret = Thrown(ErrFluxBounds)
                      /\ DimInBounds(a) /\ DimInBounds(b)
                            /\ (a % FluxStep # 0 \/ b % FluxStep # 0)
                            => ret = Thrown(ErrFluxAlign)

\* C23: for a model type other than flux every token matching
\* <digits>x<digits> is returned unchanged, whatever its dimensions.
C23_NonFluxFormatOnly ==
    SizeCallDone /\ call.modelType \in {"gpt-image-1", "dalle"}
        /\ MatchesDigitsXDigits(call.size)
        => ret = Returned(call.size)

\* C23 witness: 5000x17 was returned for gpt-image-1
C23_Witness ==
    /\ SizeCallDone /\ call.modelType = "gpt-image-1"
    /\ call.size = WxH(ToDec(5000), ToDec(17))
    /\ ret = Returned(call.size)

(***************************************************************************)
(* list_generated_images (index.js lines 207-237) and                      *)
(* ImageGenerator.listGeneratedImages (imageGenerator.js lines 291-316).   *)
(***************************************************************************)
\* the bindings of the server module: its imports (lines 11-16) and its
\* top-level declarations
ServerScope == {"McpServer", "StdioServerTransport", "z", "path", "config",
                "createImageProvider", "imageProvider", "buildUIPrompt", "server", "main"}

\* reading an identifier that the module does not bind
ErrNotDefined(name) == <<"ReferenceError", name, " is not defined">>

EndsWith(s, suffix) ==
    Len(s) >= Len(suffix) /\ SubSeq(s, Len(s) - Len(suffix) + 1, Len(s)) = suffix

\* /\.(png|jpg|jpeg)$/i.test(f)
IsImageName(f) ==
    \/ EndsWith(toLowerCase(f), <<".", "p", "n", "g">>)
    \/ EndsWith(toLowerCase(f), <<".", "j", "p", "g">>)
    \/ EndsWith(toLowerCase(f), <<".", "j", "p", "e", "g">>)

\* fs.readdir(dir): the names of the entries directly inside dir
Readdir(files, dir) ==
    {PathBasename(p) : p \in {q \in (DOMAIN files.files) \cup files.dirs :
                                 q # Resolve(dir) /\ PathDirname(q) = Resolve(dir)}}

\* stats.size of an entry
StatSize(files, p) == IF Resolve(p) \in DOMAIN files.files THEN Len(files.files[Resolve(p)]) ELSE 0

\* ImageGenerator.listGeneratedImages: the images directly inside
\* config.outputDir; any failure is caught and gives the empty list
ImageGenerator_listGeneratedImages(cfg, files) ==
    IF Mkdir(files, cfg.outputDir).state = "thrown" THEN {}
    ELSE {[name |-> f, path |-> PathJoin(cfg.outputDir, f),
           size |-> StatSize(files, PathJoin(cfg.outputDir, f))] :
             f \in {g \in Readdir(files, cfg.outputDir) : IsImageName(g)}}

\* what listGeneratedImages leaves on the disk: the output directory exists
ListedDisk(cfg, files) ==
    IF Mkdir(files, cfg.outputDir).state = "thrown" THEN files
    ELSE Mkdir(files, cfg.outputDir).value

\* the handler of list_generated_images: it reads imageGenerator
list_generated_images(scope, cfg, files) ==
    IF "imageGenerator" \notin scope THEN Thrown(ErrNotDefined("imageGenerator"))
    ELSE Returned([success |-> TRUE,
                   count   |-> Cardinality(ImageGenerator_listGeneratedImages(cfg, files)),
                   images  |-> ImageGenerator_listGeneratedImages(cfg, files)])

\* the generation calls made before the listing have ended
Quiet == \A i \in InvIds : Terminal(i)

ToolListGeneratedImages ==
    /\ Quiet
    /\ call' = [fn |-> "list_generated_images"]
    /\ ret' = list_generated_images(ServerScope, config, fs)
    /\ fs' = IF "imageGenerator" \in ServerScope THEN ListedDisk(config, fs) ELSE fs
    /\ UNCHANGED <<env, config, imageProvider, inv>>

\* imageGenerator.listGeneratedImages() called by a program
CallListGeneratedImages ==
    /\ Quiet
    /\ call' = [fn |-> "listGeneratedImages"]
    /\ ret' = Returned(ImageGenerator_listGeneratedImages(config, fs))
    /\ fs' = ListedDisk(config, fs)
    /\ UNCHANGED <<env, config, imageProvider, inv>>

NextList ==
    \/ ToolListGeneratedImages
    \/ CallListGeneratedImages
    \/ \E i \in InvIds :
          \/ ToolGenerateImage(i)
          \/ ToolGenerateUIImage(i)
          \/ RemoteResponds(i)
          \/ MkdirCompletes(i)
          \/ WriteCompletes(i)

SpecList == Init /\ [][NextList]_vars

SavedByTool == {i \in Saved : inv[i].entry \in {"generate_image", "generate_ui_image"}}

\* C24: after successful generate_image and generate_ui_image calls,
\* list_generated_images succeeds and its listing has an entry, with name,
\* path and size, for every image file those calls saved.
C24_ListingComplete ==
    call.fn = "list_generated_images" /\ SavedByTool # {} =>
        /\ ret.state = "returned"
        /\ \A i \in SavedByTool :
              \E img \in ret.value.images :
                  /\ Resolve(img.path) = Resolve(inv[i].filePath)
                  /\ img.name = PathBasename(inv[i].filePath)
                  /\ img.size = Len(fs.files[Resolve(inv[i].filePath)])

\* the listing of ImageGenerator.listGeneratedImages misses a saved image
ListingMissesImage ==
    /\ call.fn = "listGeneratedImages"
    /\ \E i \in SavedByTool :
          \A img \in ret.value : Resolve(img.path) # Resolve(inv[i].filePath)

(***************************************************************************)
(* The result object of a successful generation (checked under Spec).      *)
(***************************************************************************)
SavedByProvider ==
    {i \in Saved : inv[i].class \in {"AzureOpenAIProvider", "GoogleNanaBananaProvider"}}

\* path.isAbsolute
IsAbsolute(p) == Len(p) > 0 /\ p[1] = slash

\* the result's path names the file this request wrote, url is file://
\* followed by that path, base64 is the payload of the remote answer and
\* prompt is the prompt handed to generateImage
ResultDescribesFile(i) ==
    /\ inv[i].outcome.value.path = inv[i].filePath
    /\ Resolve(inv[i].filePath) \in DOMAIN fs.files
    /\ fs.files[Resolve(inv[i].filePath)] = BufferFromBase64(inv[i].answer.b64)
    /\ inv[i].outcome.value.url = fileScheme \o inv[i].outcome.value.path
    /\ inv[i].outcome.value.base64 = inv[i].answer.b64
    /\ inv[i].outcome.value.prompt = inv[i].prompt

\* C25: in every successful result path is an absolute path naming the
\* file written by that request, url is "file://" followed by that path,
\* base64 is the payload of the remote call and prompt is the input prompt,
\* for every workingDirectory and output directory, relative ones included.
C25_ResultPaths ==
    \A i \in SavedByProvider :
        /\ IsAbsolute(inv[i].outcome.value.path)
        /\ ResultDescribesFile(i)

\* the same without the absoluteness of path
C25_ResultDescribesFile == \A i \in SavedByProvider : ResultDescribesFile(i)

\* a successful result whose path is relative
RelativeResultPath ==
    \E i \in SavedByProvider :
        /\ inv[i].args.workingDirectory = rel
        /\ ~IsAbsolute(inv[i].outcome.value.path)

(***************************************************************************)
(* Server start, index.js lines 18-27: config.validate(), then             *)
(* createImageProvider(); an error of either ends the process.             *)
(***************************************************************************)
StartupArgs == {Args(TenPrompt, NoValue, NoValue, NoValue, Absent, foo, Absent)}

InitStartup ==
    /\ env \in Envs
    /\ config = Config(env)
    /\ imageProvider = NoObject
    /\ call = [fn |-> "start"]
    /\ ret = Pending
    /\ fs \in {d \in Disks : d.files = <<>>}
    /\ inv = [i \in InvIds |-> Idle]

\* config.validate() inside the try block
StartupValidates ==
    /\ call.fn = "start"
    /\ ret' = Config_validate(config)
    /\ call' = IF Config_validate(config).state = "thrown"
               THEN [fn |-> "exit", code |-> 1, at |-> "validate"]
               ELSE [fn |-> "validated"]
    /\ UNCHANGED <<env, config, imageProvider, fs, inv>>

\* imageProvider = createImageProvider() inside the try block
StartupCreatesProvider ==
    /\ call.fn = "validated"
    /\ \E googleCopy \in GoogleCopies :
          LET made == createImageProvider(config, googleCopy)
          IN  /\ ret' = IF made.state = "thrown" THEN made ELSE Returned(made.value.class)
              /\ imageProvider' = IF made.state = "thrown" THEN imageProvider ELSE made.value
              /\ call' = IF made.state = "thrown"
                         THEN [fn |-> "exit", code |-> 1, at |-> "createImageProvider"]
                         ELSE [fn |-> "serve"]
    /\ UNCHANGED <<env, config, fs, inv>>

\* a tool request reaches the running server
StartupToolGenerateImage(i) ==
    /\ call.fn = "serve"
    /\ \E args \in StartupArgs : Begin(i, generate_image(imageProvider, args))

NextStartup ==
    \/ StartupValidates
    \/ StartupCreatesProvider
    \/ \E i \in InvIds :
          \/ StartupToolGenerateImage(i)
          \/ RemoteResponds(i)
          \/ MkdirCompletes(i)
          \/ WriteCompletes(i)

SpecStartup == InitStartup /\ [][NextStartup]_vars

ProviderClasses == {"AzureOpenAIProvider", "GoogleNanaBananaProvider"}

\* C26: whenever Config.validate() has passed, createImageProvider() on
\* that configuration returns a provider, so the process exits only on a
\* validation error, never on the factory's unknown-provider error or a
\* constructor's missing-field error, and every tool request is served by a
\* constructed provider.
C26_StartupConsistent ==
    /\ [](call.fn = "validated" =>
            \A googleCopy \in GoogleCopies :
                /\ createImageProvider(config, googleCopy).state = "returned"
                /\ createImageProvider(config, googleCopy).value.class \in ProviderClasses)
    /\ [](call.fn = "exit" => call.at = "validate" /\ ret = Config_validate(config)
                              /\ imageProvider = NoObject)
    /\ [](\A i \in Active : call.fn = "serve" /\ imageProvider.class \in ProviderClasses
                            /\ inv[i].class = imageProvider.class)
    /\ [][call.fn = "validated" => call'.fn = "serve"]_vars

\* C26 witness: an Azure configuration that relies on the deployment and
\* API-version defaults passed validation, the provider was constructed and
\* a tool request was served.
C26_Witness ==
    /\ call.fn = "serve"
    /\ env.AZURE_OPENAI_DEPLOYMENT = Absent /\ env.AZURE_OPENAI_API_VERSION = Absent
    /\ imageProvider.class = "AzureOpenAIProvider"
    /\ \E i \in Active : inv[i].pc = "succeeded"

(***************************************************************************)
(* The order of the input checks of AzureOpenAIProvider.generateImage.     *)
(***************************************************************************)
huge == <<"h", "u", "g", "e">>

OrderArgs ==
    {Args(t, NoValue, NoValue, q, s, foo, Absent) :
        t \in {NoValue, "short", LongPrompt},
        q \in {NoValue, "low", "ultra"},
        s \in {Absent, huge, custom768,
               WxH(ToDec(100), ToDec(100)), WxH(ToDec(1441), ToDec(1024)),
               WxH(ToDec(300), ToDec(1024)), WxH(ToDec(0), ToDec(17))}}

OrderCallGenerateImage(i) ==
    \E args \in OrderArgs : Begin(i, generateImage(imageProvider, args))

NextOrder ==
    \E i \in InvIds :
        \/ OrderCallGenerateImage(i)
        \/ RemoteResponds(i)
        \/ MkdirCompletes(i)
        \/ WriteCompletes(i)

SpecOrder == Init /\ [][NextOrder]_vars

NoViolation == <<"none">>

Width(size) == Number(Split(Expanded(size), x)[1])

Height(size) == Number(Split(Expanded(size), x)[2])

\* the first violated rule in the order prompt presence, prompt length,
\* quality, size format, size bounds, size alignment
FirstViolation(a, modelType) ==
    LET quality == IF a.quality = NoValue THEN "standard" ELSE a.quality
        size    == IF a.size = Absent THEN medium ELSE a.size
    IN  IF a.text = NoValue \/ a.text = "" THEN ErrPromptRequired
        ELSE IF Len(a.text) < 10 THEN ErrPromptTooShort
        ELSE IF modelType = "flux" /\ quality \notin {"standard", "hd"} THEN ErrFluxQuality
        ELSE IF modelType = "gpt-image-1" /\ quality \notin {"low", "medium", "high"}
             THEN ErrGptQuality
        ELSE IF ~MatchesDigitsXDigits(Expanded(size)) THEN ErrSizeShorthand
        ELSE IF modelType = "flux" /\ (~DimInBounds(Width(size)) \/ ~DimInBounds(Height(size)))
             THEN ErrFluxBounds
        ELSE IF modelType = "flux"
                /\ (Width(size) % FluxStep # 0 \/ Height(size) % FluxStep # 0)
             THEN ErrFluxAlign
        ELSE NoViolation

AzureCalls == {i \in Active : inv[i].class = "AzureOpenAIProvider"}

\* C27: the Azure generateImage reports only the first violated rule, in
\* the order prompt presence, prompt length, quality, size format, size
\* bounds, size alignment, and does so before the remote call.
C27_CheckOrder ==
    \A i \in AzureCalls :
        LET first == FirstViolation(inv[i].args, imageProvider.modelType)
        IN  IF first = NoViolation THEN inv[i].remoteCalls = 1
            ELSE /\ inv[i].pc = "failed"
                 /\ inv[i].outcome = Thrown(first)
                 /\ inv[i].remoteCalls = 0

\* the same for sizes without a dimension of 0
C27_CheckOrderButZero ==
    \A i \in AzureCalls :
        LET first == FirstViolation(inv[i].args, imageProvider.modelType)
        IN  inv[i].args.size # WxH(ToDec(0), ToDec(17)) =>
                IF first = NoViolation THEN inv[i].remoteCalls = 1
                ELSE /\ inv[i].pc = "failed"
                     /\ inv[i].outcome = Thrown(first)
                     /\ inv[i].remoteCalls = 0

(***************************************************************************)
(* What a request leaves on the disk (checked under Spec, where the one    *)
(* request is the only writer, so the disk is as the request found it      *)
(* exactly when it is still one of Disks).                                 *)
(***************************************************************************)
HasImageData(i) == inv[i].answer # NoAnswer /\ inv[i].answer.kind = "data"
                   /\ ~NoBase64(inv[i].answer)

\* C28: a request changes the disk only after its remote call returned
\* image data, and a request that ends failed, whatever the reason, leaves
\* the disk as it found it: no directory created, no file written.
C28_FailureLeavesDisk ==
    /\ [](\A i \in Active : inv[i].pc = "failed" => fs \in Disks /\ inv[i].mkdirs = 0)
    /\ [][fs' # fs => \E i \in Active : HasImageData(i)]_vars

\* the same for the failures that precede saveBase64Image
C28_EarlyFailureLeavesDisk ==
    /\ [](\A i \in Active : inv[i].pc = "failed" /\ ~HasImageData(i)
                            => fs \in Disks /\ inv[i].mkdirs = 0)
    /\ [][fs' # fs => \E i \in Active : HasImageData(i)]_vars

\* a failed request that left a directory it created
DirectoryLeftBehind ==
    \E i \in Active :
        /\ inv[i].pc = "failed"
        /\ inv[i].outcome = Caught(inv[i].class, Thrown(ErrIo))
        /\ Resolve(inv[i].outputDir) \in fs.dirs
        /\ fs \notin Disks

(***************************************************************************)
(* The quality default on a gpt-image-1 deployment (checked under Spec).   *)
(***************************************************************************)
GptImageServer ==
    imageProvider.class = "AzureOpenAIProvider" /\ imageProvider.modelType = "gpt-image-1"

\* the tool requests that reach the provider with quality "standard"
StandardByDefault ==
    {i \in Active : \/ inv[i].entry = "generate_ui_image"
                    \/ inv[i].entry = "generate_image" /\ inv[i].args.quality = NoValue}

\* C29: on an Azure provider whose model type is gpt-image-1 every
\* generate_image request without a quality and every generate_ui_image
\* request is rejected before any remote call; the ones the tool schema
\* lets through are rejected by quality validation, so no such request
\* ever succeeds.
C29_GptStandardRejected ==
    GptImageServer =>
        \A i \in StandardByDefault :
            /\ inv[i].pc = "failed"
            /\ inv[i].remoteCalls = 0
            /\ inv[i].answer = NoAnswer
            /\ inv[i].handed = 1 => inv[i].outcome = Thrown(ErrGptQuality)
            /\ inv[i].handed = 0 => inv[i].outcome.state = "thrown"

\* C29 witness: a generate_ui_image request with a valid description was
\* refused with the gpt-image-1 quality message.
C29_Witness ==
    /\ GptImageServer
    /\ \E i \in StandardByDefault :
          /\ inv[i].entry = "generate_ui_image"
          /\ inv[i].args.text = LongDescription
          /\ inv[i].outcome = Thrown(ErrGptQuality)

(***************************************************************************)
(* Custom filenames (checked under Spec).                                  *)
(***************************************************************************)
CustomNamed == {i \in Saved : ~Falsy(inv[i].args.filename) /\ inv[i].class # "ImageGenerator"}

\* C30: for every custom filename, also one with path separators or ".."
\* segments, the file a generation wrote lies directly inside the output
\* directory the request resolved.
C30_CustomNameInsideDir ==
    \A i \in CustomNamed :
        /\ Resolve(inv[i].filePath) \in DOMAIN fs.files
        /\ PathDirname(Resolve(inv[i].filePath)) = Resolve(inv[i].outputDir)

\* the same for custom filenames that are a single path segment
C30_PlainNameInsideDir ==
    \A i \in CustomNamed :
        inv[i].args.filename = foo =>
            /\ Resolve(inv[i].filePath) \in DOMAIN fs.files
            /\ PathDirname(Resolve(inv[i].filePath)) = Resolve(inv[i].outputDir)

(***************************************************************************)
(* Two requests on one provider with different target paths, started on    *)
(* a disk that holds the working directory only.                           *)
(***************************************************************************)
EmptyDisk == [dirs |-> UpTo(Cwd), files |-> <<>>]

subX == <<"s", "u", "b", "/", "x">>

projSub == PathJoin(PathJoin(proj, generatedImages), <<"s", "u", "b">>)

ConcurrentArgs ==
    {Args(LongPrompt, NoValue, NoValue, NoValue, Absent, f, w) :
        f \in {foo, subX}, w \in {proj, projSub}}

InitConcurrent ==
    /\ env \in ServerEnvs
    /\ config = Config(env)
    /\ Config_validate(config).state = "returned"
    /\ \E copy \in GoogleCopies :
          /\ createImageProvider(config, copy).state = "returned"
          /\ imageProvider = createImageProvider(config, copy).value
    /\ call = [fn |-> "serve"]
    /\ ret = Pending
    /\ fs = EmptyDisk
    /\ inv = [i \in RaceIds |-> Idle]

ConcurrentCallGenerateImage(i) ==
    \E args \in ConcurrentArgs : Begin(i, generateImage(imageProvider, args))

NextConcurrent ==
    \E i \in RaceIds :
        \/ ConcurrentCallGenerateImage(i)
        \/ RaceRemoteResponds(i)
        \/ MkdirCompletes(i)
        \/ FileOpens(i)
        \/ FileWrites(i)
        \/ FileCloses(i)

SpecConcurrent == InitConcurrent /\ [][NextConcurrent]_vars

Requests == {i \in DOMAIN inv : inv[i].pc # "idle"}

\* the path a request with a custom filename writes
TargetOf(i) ==
    Resolve(PathJoin(ProviderOutputDir(imageProvider, inv[i].args.workingDirectory),
                     inv[i].args.filename \o <<".">> \o png))

\* how the request ends when it runs alone on EmptyDisk with the same answer
\* and a working device
AloneEnd(i) ==
    LET dir   == ProviderOutputDir(imageProvider, inv[i].args.workingDirectory)
        made  == Mkdir(EmptyDisk, dir)
        wrote == WriteFile(made.value, TargetOf(i), Bytes(i))
    IN  IF made.state = "thrown" THEN Caught(inv[i].class, made)
        ELSE IF wrote.state = "thrown" THEN Caught(inv[i].class, wrote)
        ELSE Returned(ResultOf([inv[i] EXCEPT !.filePath =
                                   PathJoin(dir, inv[i].args.filename \o <<".">> \o png)]))

\* requests that got image data and ended, not by a failure of the device
EndedWithData ==
    {i \in Requests : /\ inv[i].pc \in {"succeeded", "failed"}
                      /\ inv[i].answer # NoAnswer /\ inv[i].answer.kind = "data"
                      /\ inv[i].outcome # Caught(inv[i].class, Thrown(ErrIo))}

EndsAsAlone(i) ==
    /\ inv[i].outcome = AloneEnd(i)
    /\ inv[i].pc = "succeeded" =>
          /\ TargetOf(i) \in DOMAIN fs.files
          /\ fs.files[TargetOf(i)] = Bytes(i)

\* C21: no step of a request changes the provider's or the configuration's
\* fields, and a request whose target path differs from the others' ends
\* with the outcome and the file content it has when it runs alone.
C21_NoInterference ==
    /\ [][imageProvider' = imageProvider /\ config' = config]_vars
    /\ [](\A i \in EndedWithData :
            (\A j \in Requests \ {i} : TargetOf(j) # TargetOf(i)) => EndsAsAlone(i))

\* the same for requests whose custom filenames are single path segments
C21_PlainNamesNoInterference ==
    /\ [][imageProvider' = imageProvider /\ config' = config]_vars
    /\ [](\A i \in EndedWithData :
            /\ \A j \in Requests : inv[j].args.filename = foo
            /\ \A j \in Requests \ {i} : TargetOf(j) # TargetOf(i)
            => EndsAsAlone(i))

\* a request that fails alone (its file's directory does not exist) has
\* succeeded because another request created that directory
HelpedByTheOther ==
    \E i \in EndedWithData :
        /\ inv[i].pc = "succeeded"
        /\ AloneEnd(i).state = "thrown"
        /\ \A j \in Requests \ {i} : TargetOf(j) # TargetOf(i)

====
